---- MODULE Spec2Model ----
\* Consistency engine of backend/services/challenges/server.py:
\* task / plan / user / leaderboard records under CreatePlan, CompleteTask,
\* UndoTask, Replan, Retask and DeletePlan, run to completion (Spec, SpecCU,
\* SpecShort) or interleaved write by write (SpecConc).
EXTENDS Integers, Sequences, FiniteSets, Bags, TLC

\* ---------------------------------------------------------------- bounds
NUsers == 2
MaxDrafts == 2
MaxTaskRecords == 3
MaxPlans == 2
MaxOps == 5
MaxShortOps == 3
MaxCalls == 3
MaxStepCalls == 2
MaxEditCalls == 2
NProcs == 2
LeaderK == 2
MaxTotal == 100

\* ------------------------------------------------------------- constants
None == 0
Now == 1

Users == 1..NUsers
Weights == {1, 3}
PlanIds == 1..MaxPlans
TaskIds == 0..(MaxTaskRecords - 1)
NoTask == 0 - 1

\* drafts returned by the oracle after normalisation: one difficulty weight
\* per surviving task, at least one task
DraftSets == UNION {[1..n -> Weights] : n \in 1..MaxDrafts}

\* a draft that normalisation drops: its date does not parse, or its title or
\* description is empty
BadDraft == 0

\* what get_llm_response hands back: a failure, or a task list in which any
\* draft may be one that normalisation drops
LlmResponses ==
    {[status |-> FALSE, tasks |-> <<>>]}
    \cup {[status |-> TRUE, tasks |-> r] :
             r \in UNION {[1..n -> Weights \cup {BadDraft}] : n \in 0..MaxDrafts}}

\* deadline days: day k is the k-th date get_llm_response hands out, counted
\* from the day of the call
Days == 1..MaxDrafts

\* the deadline the oracle gives a modified task: the day of the call
RetaskDay == 1

\* what get_llm_retask_response hands back: a failure, or one new task with
\* its difficulty and deadline
RetaskResponses ==
    {[status |-> FALSE, difficulty |-> 0, deadline_date |-> RetaskDay]}
    \cup {[status |-> TRUE, difficulty |-> w, deadline_date |-> RetaskDay] : w \in Weights}

\* the goal text of a request
Goals == {1}

\* session tokens: user u holds token u, no session carries token 0
Tokens == 0..NUsers

\* the sessions collection, by token
Sessions == [token \in Users |-> [user_id |-> token]]

\* a verify_session that takes a token without a session for the first user's
verify_session_AnyToken(token) ==
    [ok |-> TRUE,
     user_id |-> IF token \in DOMAIN Sessions THEN Sessions[token].user_id ELSE 1]

verify_session(token) ==
    IF token \in DOMAIN Sessions
    THEN [ok |-> TRUE, user_id |-> Sessions[token].user_id]
    ELSE [ok |-> FALSE, user_id |-> 0]

VARIABLES users, plans, tasks, medals, leaderboard, resp, trip, procs, log, calls, auth,
          probe, snap

vars == <<users, plans, tasks, medals, leaderboard, resp, trip, procs, log, calls, auth,
          probe, snap>>

\* ------------------------------------------------------ storage helpers
\* find_one / update_one / find_one_and_update act on the first match
FindFirst(s, Match(_)) ==
    IF \E i \in 1..Len(s) : Match(s[i])
    THEN CHOOSE i \in 1..Len(s) : Match(s[i]) /\ \A j \in 1..(i - 1) : ~Match(s[j])
    ELSE 0

Max(a, b) == IF a >= b THEN a ELSE b

RECURSIVE SumSeq(_)
SumSeq(s) == IF s = <<>> THEN 0 ELSE Head(s) + SumSeq(Tail(s))

\* ------------------------------------------------------------ documents
NewUser == [score |-> 0, n_tasks_done |-> 0, n_plans |-> 0, active_plans |-> {}]

\* a prompt of the plan's history: the goal text and the task ids of the
\* retask annotations appended to it
Prompt(goal) == [goal |-> goal, notes |-> <<>>]

NewPlan(u, pid, n, goal, response) ==
    [user_id |-> u, plan_id |-> pid, n_tasks |-> n, n_tasks_done |-> 0,
     deleted |-> FALSE, n_replans |-> 0, next_task_id |-> n, completed_at |-> None,
     prompts |-> <<Prompt(goal)>>, responses |-> <<response>>]

\* the tasks dict get_llm_response builds: the k-th draft under the k-th date
TasksDict(raw) == [k \in 1..Len(raw) |-> [date |-> k, difficulty |-> raw[k]]]

\* a normalisation that drops nothing
NormalizeTasks_KeepAll(dict) == dict

\* _normalize_tasks_or_throw: the (date, task) pairs that survive, in order
NormalizeTasks(dict) == SelectSeq(dict, LAMBDA d : d.difficulty # BadDraft)

NewTask(u, pid, tid, w, day) ==
    [task_id |-> tid, plan_id |-> pid, user_id |-> u, difficulty |-> w,
     score |-> w * 10, deadline_date |-> day, completed_at |-> None, deleted |-> FALSE]

\* ------------------------------------------------ task filters (queries)
\* the completion filter without its completed_at = None precondition
IsOpenTask_NoPrecondition(d, u, p, t) ==
    d.task_id = t /\ d.user_id = u /\ d.plan_id = p /\ d.deleted = FALSE

\* the completion filter without its deleted = FALSE condition
IsOpenTask_IgnoreDeleted(d, u, p, t) ==
    d.task_id = t /\ d.user_id = u /\ d.plan_id = p /\ d.completed_at = None

IsOpenTask(d, u, p, t) ==
    d.task_id = t /\ d.user_id = u /\ d.plan_id = p /\ d.deleted = FALSE /\ d.completed_at = None

IsLiveTask(d, u, p, t) ==
    d.task_id = t /\ d.user_id = u /\ d.plan_id = p /\ d.deleted = FALSE

IsCompletedTask(d, u, p, t) ==
    d.task_id = t /\ d.user_id = u /\ d.plan_id = p /\ d.deleted = FALSE /\ d.completed_at # None

\* delete_plan's task filter without its completed_at = None condition
IsUnfinishedTask_AnyTask(d, u, p) ==
    d.user_id = u /\ d.plan_id = p /\ d.deleted = FALSE

\* delete_plan's task filter: the plan's live tasks that are not completed
IsUnfinishedTask(d, u, p) ==
    d.user_id = u /\ d.plan_id = p /\ d.deleted = FALSE /\ d.completed_at = None

\* a soft-delete filter that spares the plan's completed tasks
IsCurrentTask_Unfinished(d, u, p) ==
    d.plan_id = p /\ d.user_id = u /\ d.deleted = FALSE /\ d.completed_at = None

\* replan's soft-delete filter: the plan's tasks not yet deleted
IsCurrentTask(d, u, p) ==
    d.plan_id = p /\ d.user_id = u /\ d.deleted = FALSE

IsTaskKey(d, u, p, t) == d.task_id = t /\ d.user_id = u /\ d.plan_id = p

IsPlanKey(d, u, p) == d.user_id = u /\ d.plan_id = p

IsLivePlan(d, u, p) == d.user_id = u /\ d.plan_id = p /\ d.deleted = FALSE

\* ---------------------------------------------------- per-document writes
\* a plan pipeline that counts but never stamps completed_at
PlanDoneUpdate_NoStamp(pl) == [pl EXCEPT !.n_tasks_done = @ + 1]

\* task_done, plan pipeline: n_tasks_done + 1, then conditional completed_at
PlanDoneUpdate(pl) ==
    LET n == pl.n_tasks_done + 1
    IN  [pl EXCEPT !.n_tasks_done = n,
                   !.completed_at = IF pl.completed_at = None /\ pl.n_tasks > 0 /\ n >= pl.n_tasks
                                    THEN Now ELSE pl.completed_at]

\* an undo pipeline that leaves completed_at as it is
PlanUndoUpdate_KeepStamp(pl) == [pl EXCEPT !.n_tasks_done = Max(0, @ - 1)]

\* task_undo, plan pipeline: max(0, n_tasks_done - 1), completed_at = None
PlanUndoUpdate(pl) ==
    [pl EXCEPT !.n_tasks_done = Max(0, pl.n_tasks_done - 1), !.completed_at = None]

\* a user update that never pulls the plan from active_plans
UserDoneUpdate_NoPull(usr, p, score, planCompletedAt) ==
    [usr EXCEPT !.n_tasks_done = @ + 1, !.score = @ + score]

\* task_done, user update: $inc counters, $pull plan when the plan document
\* returned by the plan step carries a completed_at
UserDoneUpdate(usr, p, score, planCompletedAt) ==
    [usr EXCEPT !.n_tasks_done = @ + 1,
                !.score = @ + score,
                !.active_plans = IF planCompletedAt # None THEN @ \ {p} ELSE @]

\* the undo that forgets to take the score back
UserUndoUpdate_KeepScore(usr, p, score) ==
    [usr EXCEPT !.n_tasks_done = @ - 1,
                !.active_plans = @ \cup {p}]

\* task_undo, user update: $inc negative, $addToSet plan
UserUndoUpdate(usr, p, score) ==
    [usr EXCEPT !.n_tasks_done = @ - 1,
                !.score = @ - score,
                !.active_plans = @ \cup {p}]

\* ----------------------------------------------------------- leaderboard
Before(a, b) == a.score > b.score \/ (a.score = b.score /\ a.username < b.username)

RECURSIVE InsertItem(_, _)
InsertItem(e, s) ==
    IF s = <<>> THEN <<e>>
    ELSE IF Before(e, Head(s)) THEN <<e>> \o s
    ELSE <<Head(s)>> \o InsertItem(e, Tail(s))

RECURSIVE SortItems(_)
SortItems(s) == IF s = <<>> THEN <<>> ELSE InsertItem(Head(s), SortItems(Tail(s)))

SliceItems(s, k) == SubSeq(s, 1, IF Len(s) < k THEN Len(s) ELSE k)

\* $pull {items: {username}}
LeaderboardPull_Nothing(items, name) == items

\* $pull of the entries carrying the username
LeaderboardPull(items, name) == SelectSeq(items, LAMBDA e : e.username # name)

\* a bare $push, without $sort and $slice
LeaderboardPush_AppendOnly(items, name, score) ==
    Append(items, [username |-> name, score |-> score])

\* $push {items: {$each: [entry], $sort: {score: -1, username: 1}, $slice: K}}
LeaderboardPush(items, name, score) ==
    SliceItems(SortItems(Append(items, [username |-> name, score |-> score])), LeaderK)

\* ---------------------------------------------------------------- medals
\* the medal records: per user and day, the list of {grade, task_id} entries
\* (a missing record reads as the empty list)
NoMedals == [u \in Users |-> [d \in Days |-> <<>>]]

\* a grading with the thresholds at two thirds and one third
medal_grade_Thirds(completed, total) ==
    IF total <= 0 \/ completed <= 0 THEN "None"
    ELSE IF completed >= total THEN "G"
    ELSE IF 3 * completed >= 2 * total THEN "S"
    ELSE IF 3 * completed >= total THEN "B"
    ELSE "None"

\* _medal_grade: G / S / B / None from the ratio completed / total
\* (ratio >= 0.66 as 100 * completed >= 66 * total, ratio >= 0.33 likewise)
medal_grade(completed, total) ==
    IF total <= 0 \/ completed <= 0 THEN "None"
    ELSE IF completed >= total THEN "G"
    ELSE IF 100 * completed >= 66 * total THEN "S"
    ELSE IF 100 * completed >= 33 * total THEN "B"
    ELSE "None"

\* a read of the user's non-deleted tasks whatever their day
SameDay_AnyDay(ts, u, day) ==
    {i \in 1..Len(ts) : ts[i].user_id = u /\ ts[i].deleted = FALSE}

\* the user's non-deleted tasks due on the day, as task_done's find_many
\* reads them in store ts
SameDay(ts, u, day) ==
    {i \in 1..Len(ts) : ts[i].user_id = u /\ ts[i].deleted = FALSE /\ ts[i].deadline_date = day}

\* the grade task_done computes on store ts for the day of task t, which
\* it counts as one more completed task when the read does not return it
DayGrade(ts, u, day, t) ==
    LET same == SameDay(ts, u, day)
        total == Cardinality(same)
        completed == Cardinality({i \in same : ts[i].completed_at # None})
        present == \E i \in same : ts[i].task_id = t
    IN  IF present THEN medal_grade(completed, total)
        ELSE medal_grade(completed + 1, total + 1)

\* a $pull that removes nothing
MedalPull_Nothing(ms, u, day, t) == ms

\* $pull of the entries carrying task_id t from the record of (u, day)
MedalPull(ms, u, day, t) ==
    [ms EXCEPT ![u][day] = SelectSeq(@, LAMBDA e : e.task_id # t)]

\* $push of one entry to the record of (u, day), made if missing
MedalPush(ms, u, day, grade, t) ==
    [ms EXCEPT ![u][day] = Append(@, [grade |-> grade, task_id |-> t])]

\* task_done step 4: grade the day on store ts, pull the task's stale entry,
\* push the new one unless the grade is None
MedalDoneUpdate(ms, ts, u, t, day) ==
    LET grade == DayGrade(ts, u, day, t)
        pulled == MedalPull(ms, u, day, t)
    IN  IF grade # "None" THEN MedalPush(pulled, u, day, grade, t) ELSE pulled

\* ------------------------------------------------------------ auxiliaries
\* probe holds the arguments and the result of one _medal_grade evaluation
NoProbe == [completed |-> 0, total |-> 0, grade |-> "unset"]

\* snap holds the stores as the call in flight found them
NoSnap == <<>>

\* ------------------------------------------------------------ responses
Resp(op, u, p, t, status) == [op |-> op, u |-> u, p |-> p, t |-> t, status |-> status]

NoResp == Resp("none", 0, 0, NoTask, 0)

NoTrip == [phase |-> "none", u |-> 0, p |-> 0, t |-> NoTask,
           score |-> 0, n_tasks_done |-> 0, completed_at |-> None]

Init ==
    /\ users = [u \in Users |-> NewUser]
    /\ plans = <<>>
    /\ tasks = <<>>
    /\ medals = NoMedals
    /\ leaderboard = <<>>
    /\ resp = NoResp
    /\ trip = NoTrip
    /\ procs = EmptyBag
    /\ log = EmptyBag
    /\ calls = 0
    /\ auth = TRUE
    /\ probe = NoProbe
    /\ snap = NoSnap

\* ================================================= run-to-completion calls
\* get_prompt -> _insert_plan_for_user
CreatePlan(u, goal, drafts) ==
    LET pid == users[u].n_plans + 1
        n == Len(drafts)
    IN  /\ Len(tasks) + n <= MaxTaskRecords
        /\ Len(plans) < MaxPlans
        /\ users' = [users EXCEPT ![u].n_plans = pid,
                                  ![u].active_plans = @ \cup {pid}]
        /\ plans' = Append(plans, NewPlan(u, pid, n, goal, drafts))
        /\ tasks' = tasks \o [i \in 1..n |-> NewTask(u, pid, i - 1, drafts[i], i)]
        /\ resp' = Resp("create", u, pid, NoTask, 200)
        /\ trip' = NoTrip
        /\ UNCHANGED <<leaderboard, medals, procs, log>>

\* task_done, all five steps
CompleteTask(u, p, t) ==
    LET ti == FindFirst(tasks, LAMBDA d : IsOpenTask(d, u, p, t))
        pi == FindFirst(plans, LAMBDA d : IsPlanKey(d, u, p))
    IN  IF ti = 0
        THEN /\ resp' = Resp("done", 0, 0, NoTask, 404)
             /\ trip' = NoTrip
             /\ UNCHANGED <<users, plans, tasks, leaderboard, medals, procs, log>>
        ELSE IF pi = 0
        THEN /\ tasks' = [tasks EXCEPT ![ti].completed_at = Now]
             /\ resp' = Resp("done", 0, 0, NoTask, 405)
             /\ trip' = NoTrip
             /\ UNCHANGED <<users, plans, leaderboard, medals, procs, log>>
        ELSE LET plan == PlanDoneUpdate(plans[pi])
                 user == UserDoneUpdate(users[u], p, tasks[ti].score, plan.completed_at)
             IN  /\ tasks' = [tasks EXCEPT ![ti].completed_at = Now]
                 /\ plans' = [plans EXCEPT ![pi] = plan]
                 /\ users' = [users EXCEPT ![u] = user]
                 /\ medals' = MedalDoneUpdate(medals, tasks', u, t, tasks[ti].deadline_date)
                 /\ leaderboard' = LeaderboardPush(LeaderboardPull(leaderboard, u), u, user.score)
                 /\ resp' = Resp("done", u, p, t, 200)
                 /\ trip' = [phase |-> "done", u |-> u, p |-> p, t |-> t,
                             score |-> users[u].score,
                             n_tasks_done |-> plans[pi].n_tasks_done,
                             completed_at |-> plans[pi].completed_at]
                 /\ UNCHANGED <<procs, log>>

\* task_undo, all five steps
UndoTask(u, p, t) ==
    LET di == FindFirst(tasks, LAMBDA d : IsLiveTask(d, u, p, t))
        ti == FindFirst(tasks, LAMBDA d : IsCompletedTask(d, u, p, t))
        pi == FindFirst(plans, LAMBDA d : IsPlanKey(d, u, p))
    IN  IF di = 0 \/ tasks[di].completed_at = None \/ ti = 0
        THEN /\ resp' = Resp("undo", 0, 0, NoTask, 404)
             /\ trip' = NoTrip
             /\ UNCHANGED <<users, plans, tasks, leaderboard, medals, procs, log>>
        ELSE IF pi = 0
        THEN /\ tasks' = [tasks EXCEPT ![ti].completed_at = None]
             /\ resp' = Resp("undo", 0, 0, NoTask, 405)
             /\ trip' = NoTrip
             /\ UNCHANGED <<users, plans, leaderboard, medals, procs, log>>
        ELSE LET plan == PlanUndoUpdate(plans[pi])
                 user == UserUndoUpdate(users[u], p, tasks[di].score)
             IN  /\ tasks' = [tasks EXCEPT ![ti].completed_at = None]
                 /\ plans' = [plans EXCEPT ![pi] = plan]
                 /\ users' = [users EXCEPT ![u] = user]
                 /\ medals' = MedalPull(medals, u, tasks[di].deadline_date, t)
                 /\ leaderboard' = LeaderboardPush(LeaderboardPull(leaderboard, u), u, user.score)
                 /\ resp' = Resp("undo", u, p, t, 200)
                 /\ trip' = IF trip.phase = "done" /\ trip.u = u /\ trip.p = p /\ trip.t = t
                            THEN [trip EXCEPT !.phase = "undone"]
                            ELSE NoTrip
                 /\ UNCHANGED <<procs, log>>

\* a replan that numbers its tasks from the plan's task count
start_task_id_FromNTasks(pl) == pl.n_tasks

\* the first task id a replan hands out, read from the plan as found
start_task_id(pl) == pl.next_task_id

\* replan, once the oracle has answered llm_resp: 502 when it failed or no
\* draft survives; else soft-delete the plan's live tasks, insert the drafts
\* from next_task_id on, reset the plan's counters and push to its history
ReplanWith(u, p, goal, llm_resp, li) ==
    LET pi == FindFirst(plans, LAMBDA d : IsPlanKey(d, u, p))
        drafts == NormalizeTasks(TasksDict(llm_resp.tasks))
        n == Len(drafts)
    IN  IF ~llm_resp.status \/ llm_resp.tasks = <<>> \/ drafts = <<>>
        THEN /\ resp' = Resp("replan", 0, 0, NoTask, 502)
             /\ trip' = NoTrip
             /\ UNCHANGED <<users, plans, tasks, leaderboard, medals, procs, log>>
        ELSE LET start == start_task_id(plans[li])
                 marked == [i \in 1..Len(tasks) |->
                              IF IsCurrentTask(tasks[i], u, p)
                              THEN [tasks[i] EXCEPT !.deleted = TRUE] ELSE tasks[i]]
             IN  /\ Len(tasks) + n <= MaxTaskRecords
                 /\ tasks' = marked \o [i \in 1..n |-> NewTask(u, p, start + i - 1, drafts[i].difficulty, drafts[i].date)]
                 /\ plans' = [plans EXCEPT ![pi].n_replans = @ + 1,
                                           ![pi].n_tasks = n,
                                           ![pi].n_tasks_done = 0,
                                           ![pi].completed_at = None,
                                           ![pi].next_task_id = start + n,
                                           ![pi].prompts = Append(@, Prompt(goal)),
                                           ![pi].responses = Append(@, llm_resp.tasks)]
                 /\ resp' = Resp("replan", u, p, NoTask, 200)
                 /\ trip' = NoTrip
                 /\ UNCHANGED <<users, leaderboard, medals, procs, log>>

\* replan: 402 without a live plan, else ask the oracle and go on
Replan(u, p, goal) ==
    LET li == FindFirst(plans, LAMBDA d : IsLivePlan(d, u, p))
    IN  IF li = 0
        THEN /\ resp' = Resp("replan", 0, 0, NoTask, 402)
             /\ trip' = NoTrip
             /\ UNCHANGED <<users, plans, tasks, leaderboard, medals, procs, log>>
        ELSE \E llm_resp \in LlmResponses : ReplanWith(u, p, goal, llm_resp, li)

\* a retask that writes back the annotated last prompt alone
RetaskPrompts_OnlyLast(prompts, t) ==
    <<[prompts[Len(prompts)] EXCEPT !.notes = Append(@, t)]>>

\* the prompts array retask writes back: all but the last element as read,
\* then the last element with the annotation for task t appended
RetaskPrompts(prompts, t) ==
    SubSeq(prompts, 1, Len(prompts) - 1)
    \o <<[prompts[Len(prompts)] EXCEPT !.notes = Append(@, t)]>>

\* a task overwrite that leaves completed_at as it was
RetaskUpdate_KeepStamp(task, llm_resp) ==
    [task EXCEPT !.difficulty = llm_resp.difficulty,
                 !.score = llm_resp.difficulty * 10,
                 !.deadline_date = llm_resp.deadline_date]

\* the fields retask sets on the task record
RetaskUpdate(task, llm_resp) ==
    [task EXCEPT !.difficulty = llm_resp.difficulty,
                 !.score = llm_resp.difficulty * 10,
                 !.deadline_date = llm_resp.deadline_date,
                 !.completed_at = None]

\* retask, once the oracle has answered llm_resp: 501 when it failed; else
\* overwrite the task in place, completed_at back to None, and annotate the
\* last prompt
RetaskWith(u, p, t, llm_resp, li) ==
    LET ki == FindFirst(tasks, LAMBDA d : IsTaskKey(d, u, p, t))
        pi == FindFirst(plans, LAMBDA d : IsPlanKey(d, u, p))
    IN  IF ~llm_resp.status
        THEN /\ resp' = Resp("retask", 0, 0, NoTask, 501)
             /\ trip' = NoTrip
             /\ UNCHANGED <<users, plans, tasks, leaderboard, medals, procs, log>>
        ELSE /\ tasks' = [tasks EXCEPT ![ki] = RetaskUpdate(tasks[ki], llm_resp)]
             /\ plans' = [plans EXCEPT ![pi].prompts = RetaskPrompts(plans[li].prompts, t)]
             /\ resp' = Resp("retask", u, p, t, 200)
             /\ trip' = NoTrip
             /\ UNCHANGED <<users, leaderboard, medals, procs, log>>

\* retask: 404 without a live task, 405 without a live plan, else ask the
\* oracle and go on
Retask(u, p, t) ==
    LET fi == FindFirst(tasks, LAMBDA d : IsLiveTask(d, u, p, t))
        li == FindFirst(plans, LAMBDA d : IsLivePlan(d, u, p))
    IN  IF fi = 0
        THEN /\ resp' = Resp("retask", 0, 0, NoTask, 404)
             /\ trip' = NoTrip
             /\ UNCHANGED <<users, plans, tasks, leaderboard, medals, procs, log>>
        ELSE IF li = 0
        THEN /\ resp' = Resp("retask", 0, 0, NoTask, 405)
             /\ trip' = NoTrip
             /\ UNCHANGED <<users, plans, tasks, leaderboard, medals, procs, log>>
        ELSE \E llm_resp \in RetaskResponses : RetaskWith(u, p, t, llm_resp, li)

\* delete_plan: plan.deleted, soft-delete unfinished tasks, $pull active plan
DeletePlan(u, p) ==
    LET pi == FindFirst(plans, LAMBDA d : IsPlanKey(d, u, p))
    IN  IF pi = 0
        THEN /\ resp' = Resp("delete", 0, 0, NoTask, 404)
             /\ trip' = NoTrip
             /\ UNCHANGED <<users, plans, tasks, leaderboard, medals, procs, log>>
        ELSE /\ plans' = [plans EXCEPT ![pi].deleted = TRUE]
             /\ tasks' = [i \in 1..Len(tasks) |->
                            IF IsUnfinishedTask(tasks[i], u, p)
                            THEN [tasks[i] EXCEPT !.deleted = TRUE] ELSE tasks[i]]
             /\ users' = [users EXCEPT ![u].active_plans = @ \ {p}]
             /\ resp' = Resp("delete", u, p, NoTask, 200)
             /\ trip' = NoTrip
             /\ UNCHANGED <<leaderboard, medals, procs, log>>

\* every handler starts with verify_session and answers 401 before any
\* storage write when the token has no session; auth records whether the
\* token of the call carried a session
Unauthorized(op) ==
    /\ resp' = Resp(op, 0, 0, NoTask, 401)
    /\ trip' = NoTrip
    /\ UNCHANGED <<users, plans, tasks, leaderboard, medals, procs, log>>

DoCreatePlan ==
    /\ calls < MaxOps
    /\ calls' = calls + 1
    /\ UNCHANGED <<probe, snap>>
    /\ \E token \in Tokens :
          LET s == verify_session(token)
          IN  /\ auth' = (token \in DOMAIN Sessions)
              /\ IF ~s.ok THEN Unauthorized("create")
                 ELSE \E goal \in Goals, drafts \in DraftSets : CreatePlan(s.user_id, goal, drafts)
DoCompleteTask ==
    /\ calls < MaxOps
    /\ calls' = calls + 1
    /\ UNCHANGED <<probe, snap>>
    /\ \E token \in Tokens :
          LET s == verify_session(token)
          IN  /\ auth' = (token \in DOMAIN Sessions)
              /\ IF ~s.ok THEN Unauthorized("done")
                 ELSE \E p \in PlanIds, t \in TaskIds : CompleteTask(s.user_id, p, t)
DoUndoTask ==
    /\ calls < MaxOps
    /\ calls' = calls + 1
    /\ UNCHANGED <<probe, snap>>
    /\ \E token \in Tokens :
          LET s == verify_session(token)
          IN  /\ auth' = (token \in DOMAIN Sessions)
              /\ IF ~s.ok THEN Unauthorized("undo")
                 ELSE \E p \in PlanIds, t \in TaskIds : UndoTask(s.user_id, p, t)
DoReplan ==
    /\ calls < MaxOps
    /\ calls' = calls + 1
    /\ UNCHANGED <<probe, snap>>
    /\ \E token \in Tokens :
          LET s == verify_session(token)
          IN  /\ auth' = (token \in DOMAIN Sessions)
              /\ IF ~s.ok THEN Unauthorized("replan")
                 ELSE \E p \in PlanIds, goal \in Goals : Replan(s.user_id, p, goal)
DoRetask ==
    /\ calls < MaxOps
    /\ calls' = calls + 1
    /\ UNCHANGED <<probe, snap>>
    /\ \E token \in Tokens :
          LET s == verify_session(token)
          IN  /\ auth' = (token \in DOMAIN Sessions)
              /\ IF ~s.ok THEN Unauthorized("retask")
                 ELSE \E p \in PlanIds, t \in TaskIds : Retask(s.user_id, p, t)
DoDeletePlan ==
    /\ calls < MaxOps
    /\ calls' = calls + 1
    /\ UNCHANGED <<probe, snap>>
    /\ \E token \in Tokens :
          LET s == verify_session(token)
          IN  /\ auth' = (token \in DOMAIN Sessions)
              /\ IF ~s.ok THEN Unauthorized("delete")
                 ELSE \E p \in PlanIds : DeletePlan(s.user_id, p)

Next == DoCreatePlan \/ DoCompleteTask \/ DoUndoTask \/ DoReplan \/ DoRetask \/ DoDeletePlan

Spec == Init /\ [][Next]_vars

NextCU == DoCreatePlan \/ DoCompleteTask \/ DoUndoTask

SpecCU == Init /\ [][NextCU]_vars

\* all six operations, a shorter run
ShortCreatePlan == calls < MaxShortOps /\ DoCreatePlan
ShortCompleteTask == calls < MaxShortOps /\ DoCompleteTask
ShortUndoTask == calls < MaxShortOps /\ DoUndoTask
ShortReplan == calls < MaxShortOps /\ DoReplan
ShortRetask == calls < MaxShortOps /\ DoRetask
ShortDeletePlan == calls < MaxShortOps /\ DoDeletePlan

NextShort ==
    ShortCreatePlan \/ ShortCompleteTask \/ ShortUndoTask
    \/ ShortReplan \/ ShortRetask \/ ShortDeletePlan

SpecShort == Init /\ [][NextShort]_vars

\* the short run without delete_plan
NextKeep ==
    ShortCreatePlan \/ ShortCompleteTask \/ ShortUndoTask \/ ShortReplan \/ ShortRetask

SpecKeep == Init /\ [][NextKeep]_vars

\* ==================================== plans from named drafts (SpecNames)
\* The oracle names a draft's difficulty; _insert_plan_for_user converts the
\* name to a weight when it builds the task.
DifficultyNames == {"easy", "Medium", "hard", "epic"}

NameSets == UNION {[1..n -> DifficultyNames] : n \in 1..MaxDrafts}

\* str.lower() on the difficulty names above
Lower(name) == IF name = "Medium" THEN "medium" ELSE name

\* the difficulty map of the configuration file
CHALLENGES_DIFFICULTY_MAP == [easy |-> 1, medium |-> 3, hard |-> 5]

Difficulty_AlwaysDefault(name) == 1

\* CHALLENGES_DIFFICULTY_MAP.get(str(task["difficulty"]).lower(), 1)
Difficulty(name) ==
    IF Lower(name) \in DOMAIN CHALLENGES_DIFFICULTY_MAP
    THEN CHALLENGES_DIFFICULTY_MAP[Lower(name)]
    ELSE 1

\* get_prompt on drafts with named difficulties; probe keeps the names of
\* the request
NamedCreatePlan ==
    /\ calls < MaxShortOps
    /\ calls' = calls + 1
    /\ UNCHANGED snap
    /\ \E token \in Tokens :
          LET s == verify_session(token)
          IN  /\ auth' = (token \in DOMAIN Sessions)
              /\ IF ~s.ok THEN Unauthorized("create") /\ UNCHANGED probe
                 ELSE \E goal \in Goals, names \in NameSets :
                         /\ CreatePlan(s.user_id, goal,
                                       [i \in 1..Len(names) |-> Difficulty(names[i])])
                         /\ probe' = names

NextNames == NamedCreatePlan \/ ShortCompleteTask

SpecNames == Init /\ [][NextNames]_vars

\* ============================================ interleaved calls (SpecConc)
\* Each request being handled is a record of procs, the bag of the requests
\* in flight; every storage call of task_done and task_undo is one step.
\* log is the bag of the finished calls; a call is marked overlap when
\* another request was in flight as it returned.
Call(op, u, p, t, status, overlap) ==
    [op |-> op, u |-> u, p |-> p, t |-> t, status |-> status, overlap |-> overlap]

\* a handler right after its first storage call: its arguments, its position
\* and the task score it read
Handler(pc, op, u, p, t, score, day) ==
    [pc |-> pc, op |-> op, u |-> u, p |-> p, t |-> t,
     score |-> score, day |-> day, plan_completed_at |-> None, user_score |-> 0]

InFlight == BagToSet(procs)

AllIdle == InFlight = {}

\* the plan every user holds when the interleaved calls begin
ConcDrafts == <<1, 3>>

RECURSIVE ConcTasks(_)
ConcTasks(n) ==
    IF n = 0 THEN <<>>
    ELSE ConcTasks(n - 1) \o [i \in 1..Len(ConcDrafts) |-> NewTask(n, 1, i - 1, ConcDrafts[i], i)]

\* the store after each user has created one plan from ConcDrafts, one call
\* at a time, and before any task is completed
InitConc ==
    /\ users = [u \in Users |-> [NewUser EXCEPT !.n_plans = 1, !.active_plans = {1}]]
    /\ plans = [u \in Users |-> NewPlan(u, 1, Len(ConcDrafts), 1, ConcDrafts)]
    /\ tasks = ConcTasks(NUsers)
    /\ medals = NoMedals
    /\ leaderboard = <<>>
    /\ resp = NoResp
    /\ trip = NoTrip
    /\ procs = EmptyBag
    /\ log = EmptyBag
    /\ calls = 0
    /\ auth = TRUE
    /\ probe = NoProbe
    /\ snap = NoSnap

\* requests name a task that some record of the store carries
TaskKeys == {<<tasks[i].user_id, tasks[i].plan_id, tasks[i].task_id>> : i \in 1..Len(tasks)}

\* handler q moves on as record r
Advance(q, r) == procs' = (procs (-) SetToBag({q})) (+) SetToBag({r})

\* handler q returns status
Finish(q, status) ==
    /\ log' = log (+) SetToBag({Call(q.op, q.u, q.p, q.t, status, BagCardinality(procs) > 1)})
    /\ procs' = procs (-) SetToBag({q})

\* a request that returns at its first storage call
Reject(op, u, p, t, status) ==
    /\ log' = log (+) SetToBag({Call(op, u, p, t, status, ~AllIdle)})
    /\ UNCHANGED procs

\* task_done step 1: find_one_and_update on the task, 404 when no match
StartDone(u, p, t) ==
    LET ti == FindFirst(tasks, LAMBDA d : IsOpenTask(d, u, p, t))
    IN  /\ BagCardinality(procs) < NProcs
        /\ calls < MaxCalls
        /\ calls' = calls + 1
        /\ IF ti = 0
           THEN /\ Reject("done", u, p, t, 404)
                /\ UNCHANGED tasks
           ELSE /\ tasks' = [tasks EXCEPT ![ti].completed_at = Now]
                /\ procs' = procs (+) SetToBag({Handler("plan", "done", u, p, t, tasks[ti].score, tasks[ti].deadline_date)})
                /\ UNCHANGED log
        /\ UNCHANGED <<users, plans, medals, leaderboard, resp, trip, auth, probe>>

\* task_undo step 0: find_one on the task, 404 when absent or not completed
StartUndo(u, p, t) ==
    LET di == FindFirst(tasks, LAMBDA d : IsLiveTask(d, u, p, t))
    IN  /\ BagCardinality(procs) < NProcs
        /\ calls < MaxCalls
        /\ calls' = calls + 1
        /\ IF di = 0 \/ tasks[di].completed_at = None
           THEN Reject("undo", u, p, t, 404)
           ELSE /\ procs' = procs (+) SetToBag({Handler("task", "undo", u, p, t, tasks[di].score, tasks[di].deadline_date)})
                /\ UNCHANGED log
        /\ UNCHANGED <<users, plans, tasks, medals, leaderboard, resp, trip, auth, probe>>

\* task_undo step 1: find_one_and_update on the task, 404 when no match
UndoTaskStep(q) ==
    LET ti == FindFirst(tasks, LAMBDA d : IsCompletedTask(d, q.u, q.p, q.t))
    IN  /\ q.pc = "task"
        /\ IF ti = 0
           THEN /\ Finish(q, 404)
                /\ UNCHANGED tasks
           ELSE /\ tasks' = [tasks EXCEPT ![ti].completed_at = None]
                /\ Advance(q, [q EXCEPT !.pc = "plan"])
                /\ UNCHANGED log
        /\ UNCHANGED <<users, plans, medals, leaderboard, resp, trip, calls, auth, probe, snap>>

\* step 2 of both handlers: find_one_and_update on the plan, 405 when absent
PlanStep(q) ==
    LET pi == FindFirst(plans, LAMBDA d : IsPlanKey(d, q.u, q.p))
    IN  /\ q.pc = "plan"
        /\ IF pi = 0
           THEN /\ Finish(q, 405)
                /\ UNCHANGED plans
           ELSE LET plan == IF q.op = "done" THEN PlanDoneUpdate(plans[pi])
                            ELSE PlanUndoUpdate(plans[pi])
                IN  /\ plans' = [plans EXCEPT ![pi] = plan]
                    /\ Advance(q, [q EXCEPT !.pc = "user",
                                            !.plan_completed_at = plan.completed_at])
                    /\ UNCHANGED log
        /\ UNCHANGED <<users, tasks, medals, leaderboard, resp, trip, calls, auth, probe, snap>>

\* a handler that goes from the user write straight to the leaderboard
AfterUser_Leaderboard == "pull"

\* the block that follows the user write
AfterUser == "medal"

\* step 3 of both handlers: find_one_and_update on the user, score read back
UserStep(q) ==
    LET user == IF q.op = "done"
                THEN UserDoneUpdate(users[q.u], q.p, q.score, q.plan_completed_at)
                ELSE UserUndoUpdate(users[q.u], q.p, q.score)
    IN  /\ q.pc = "user"
        /\ users' = [users EXCEPT ![q.u] = user]
        /\ Advance(q, [q EXCEPT !.pc = AfterUser, !.user_score = user.score])
        /\ UNCHANGED <<plans, tasks, medals, leaderboard, resp, trip, log, calls, auth, probe, snap>>

\* step 4: the medal block, task_done's find_many, $pull and $push or
\* task_undo's $pull
MedalStep(q) ==
    /\ q.pc = "medal"
    /\ medals' = IF q.op = "done" THEN MedalDoneUpdate(medals, tasks, q.u, q.t, q.day)
                 ELSE MedalPull(medals, q.u, q.day, q.t)
    /\ Advance(q, [q EXCEPT !.pc = "pull"])
    /\ UNCHANGED <<users, plans, tasks, leaderboard, resp, trip, log, calls, auth, probe, snap>>

\* step 5a: $pull of the user's leaderboard entry
PullStep(q) ==
    /\ q.pc = "pull"
    /\ leaderboard' = LeaderboardPull(leaderboard, q.u)
    /\ Advance(q, [q EXCEPT !.pc = "push"])
    /\ UNCHANGED <<users, plans, tasks, medals, resp, trip, log, calls, auth, probe, snap>>

\* step 5b: $push with $sort and $slice, then the handler returns 200
PushStep(q) ==
    /\ q.pc = "push"
    /\ leaderboard' = LeaderboardPush(leaderboard, q.u, q.user_score)
    /\ Finish(q, 200)
    /\ UNCHANGED <<users, plans, tasks, medals, resp, trip, calls, auth, probe, snap>>

DoStartDone == \E k \in TaskKeys : StartDone(k[1], k[2], k[3])
DoStartUndo == \E k \in TaskKeys : StartUndo(k[1], k[2], k[3])
DoUndoTaskStep == \E q \in InFlight : UndoTaskStep(q)
DoPlanStep == \E q \in InFlight : PlanStep(q)
DoUserStep == \E q \in InFlight : UserStep(q)
DoMedalStep == \E q \in InFlight : MedalStep(q)
DoPullStep == \E q \in InFlight : PullStep(q)
DoPushStep == \E q \in InFlight : PushStep(q)

ConcStartDone == DoStartDone /\ UNCHANGED snap
ConcStartUndo == DoStartUndo /\ UNCHANGED snap

NextConc ==
    ConcStartDone \/ ConcStartUndo \/ DoUndoTaskStep \/ DoPlanStep
    \/ DoUserStep \/ DoMedalStep \/ DoPullStep \/ DoPushStep

SpecConc == InitConc /\ [][NextConc]_vars

\* ============ interleaved calls on a plan with one task done (SpecPair)
\* the store after each user has created one plan from ConcDrafts and
\* completed its second task, one call at a time
PairTasks == [i \in 1..Len(ConcTasks(NUsers)) |->
                IF ConcTasks(NUsers)[i].task_id = 1
                THEN [ConcTasks(NUsers)[i] EXCEPT !.completed_at = Now]
                ELSE ConcTasks(NUsers)[i]]

InitPair ==
    /\ plans = [u \in Users |-> PlanDoneUpdate(NewPlan(u, 1, Len(ConcDrafts), 1, ConcDrafts))]
    /\ users = [u \in Users |->
                  UserDoneUpdate([NewUser EXCEPT !.n_plans = 1, !.active_plans = {1}],
                                 1, ConcDrafts[2] * 10, plans[u].completed_at)]
    /\ tasks = PairTasks
    /\ medals = [u \in Users |-> MedalDoneUpdate(NoMedals, PairTasks, u, 1, 2)[u]]
    /\ leaderboard = SliceItems(SortItems([u \in Users |->
                                            [username |-> u, score |-> users[u].score]]),
                                LeaderK)
    /\ resp = NoResp
    /\ trip = NoTrip
    /\ procs = EmptyBag
    /\ log = EmptyBag
    /\ calls = 0
    /\ auth = TRUE
    /\ probe = NoProbe
    /\ snap = NoSnap

SpecPair == InitPair /\ [][NextConc]_vars

\* ================= interleaved create, replan and retask (SpecEdit)
\* Every storage call of _insert_plan_for_user, replan and retask is one
\* step; the oracle reads no store, so its answer is drawn in the step of
\* the storage call that precedes it.
EditHandler(pc, op, u, p, t) ==
    [pc |-> pc, op |-> op, u |-> u, p |-> p, t |-> t, goal |-> 0, raw |-> <<>>,
     start |-> 0, prompts |-> <<>>, llm |-> [status |-> FALSE]]

\* the goal texts of the interleaved replans, none of them the goal the
\* plan was created with
ReplanGoals == {g + 1 : g \in Goals}

\* the drafts a handler inserts: its oracle answer, normalised
EditDrafts(q) == NormalizeTasks(TasksDict(q.raw))

\* _insert_plan_for_user step 1: find_one on the user, plan_id = n_plans + 1
StartCreate(u, goal, drafts) ==
    /\ BagCardinality(procs) < NProcs
    /\ calls < MaxEditCalls
    /\ calls' = calls + 1
    /\ procs' = procs (+) SetToBag({[EditHandler("set_n_plans", "create", u,
                                                 users[u].n_plans + 1, NoTask)
                                        EXCEPT !.goal = goal, !.raw = drafts]})
    /\ UNCHANGED <<users, plans, tasks, medals, leaderboard, resp, trip, log, auth, probe, snap>>

\* step 2: update_one on the user, $set n_plans and $addToSet active_plans
CreateUserStep(q) ==
    /\ q.pc = "set_n_plans"
    /\ users' = [users EXCEPT ![q.u].n_plans = q.p, ![q.u].active_plans = @ \cup {q.p}]
    /\ Advance(q, [q EXCEPT !.pc = "insert_plan"])
    /\ UNCHANGED <<plans, tasks, medals, leaderboard, resp, trip, log, calls, auth, probe, snap>>

\* step 3: insert of the plan document
CreatePlanStep(q) ==
    /\ q.pc = "insert_plan"
    /\ plans' = Append(plans, NewPlan(q.u, q.p, Len(q.raw), q.goal, q.raw))
    /\ Advance(q, [q EXCEPT !.pc = "insert_tasks"])
    /\ UNCHANGED <<users, tasks, medals, leaderboard, resp, trip, log, calls, auth, probe, snap>>

\* step 4: insert_many of the tasks, numbered from 0
CreateTasksStep(q) ==
    /\ q.pc = "insert_tasks"
    /\ q.op = "create"
    /\ tasks' = tasks \o [i \in 1..Len(q.raw) |-> NewTask(q.u, q.p, i - 1, q.raw[i], i)]
    /\ Finish(q, 200)
    /\ UNCHANGED <<users, plans, medals, leaderboard, resp, trip, calls, auth, probe, snap>>

\* replan step 1: find_one on the live plan, 402 when absent; then the
\* oracle, 502 when it fails or nothing survives normalisation
StartReplan(u, p, goal, llm_resp) ==
    LET li == FindFirst(plans, LAMBDA d : IsLivePlan(d, u, p))
    IN  /\ BagCardinality(procs) < NProcs
        /\ calls < MaxEditCalls
        /\ calls' = calls + 1
        /\ IF li = 0
           THEN Reject("replan", u, p, NoTask, 402)
           ELSE IF ~llm_resp.status \/ llm_resp.tasks = <<>>
                   \/ NormalizeTasks(TasksDict(llm_resp.tasks)) = <<>>
           THEN Reject("replan", u, p, NoTask, 502)
           ELSE /\ procs' = procs (+) SetToBag({[EditHandler("mark", "replan", u, p, NoTask)
                                                   EXCEPT !.goal = goal,
                                                          !.raw = llm_resp.tasks,
                                                          !.start = start_task_id(plans[li])]})
                /\ UNCHANGED log
        /\ UNCHANGED <<users, plans, tasks, medals, leaderboard, resp, trip, auth, probe, snap>>

\* replan step 2: update_many, soft-delete of the plan's current tasks
ReplanMarkStep(q) ==
    /\ q.pc = "mark"
    /\ tasks' = [i \in 1..Len(tasks) |->
                   IF IsCurrentTask(tasks[i], q.u, q.p)
                   THEN [tasks[i] EXCEPT !.deleted = TRUE] ELSE tasks[i]]
    /\ Advance(q, [q EXCEPT !.pc = "insert_tasks"])
    /\ UNCHANGED <<users, plans, medals, leaderboard, resp, trip, log, calls, auth, probe, snap>>

\* replan step 3: insert_many of the new tasks, numbered from the
\* next_task_id read in step 1
ReplanTasksStep(q) ==
    /\ q.pc = "insert_tasks"
    /\ q.op = "replan"
    /\ tasks' = tasks \o [i \in 1..Len(EditDrafts(q)) |->
                            NewTask(q.u, q.p, q.start + i - 1,
                                    EditDrafts(q)[i].difficulty, EditDrafts(q)[i].date)]
    /\ Advance(q, [q EXCEPT !.pc = "update_plan"])
    /\ UNCHANGED <<users, plans, medals, leaderboard, resp, trip, log, calls, auth, probe, snap>>

\* replan step 4: find_one_and_update on the plan, counters and history
ReplanPlanStep(q) ==
    LET pi == FindFirst(plans, LAMBDA d : IsPlanKey(d, q.u, q.p))
        n == Len(EditDrafts(q))
    IN  /\ q.pc = "update_plan"
        /\ plans' = [plans EXCEPT ![pi].n_replans = @ + 1,
                                  ![pi].n_tasks = n,
                                  ![pi].n_tasks_done = 0,
                                  ![pi].completed_at = None,
                                  ![pi].next_task_id = q.start + n,
                                  ![pi].prompts = Append(@, Prompt(q.goal)),
                                  ![pi].responses = Append(@, q.raw)]
        /\ Finish(q, 200)
        /\ UNCHANGED <<users, tasks, medals, leaderboard, resp, trip, calls, auth, probe, snap>>

\* retask step 1: find_one on the live task, 404 when absent
StartRetask(u, p, t) ==
    LET fi == FindFirst(tasks, LAMBDA d : IsLiveTask(d, u, p, t))
    IN  /\ BagCardinality(procs) < NProcs
        /\ calls < MaxEditCalls
        /\ calls' = calls + 1
        /\ IF fi = 0
           THEN Reject("retask", u, p, t, 404)
           ELSE /\ procs' = procs (+) SetToBag({EditHandler("read_plan", "retask", u, p, t)})
                /\ UNCHANGED log
        /\ UNCHANGED <<users, plans, tasks, medals, leaderboard, resp, trip, auth, probe, snap>>

\* retask step 2: find_one on the live plan, 405 when absent; then the
\* oracle, 501 when it fails
RetaskReadStep(q, llm_resp) ==
    LET li == FindFirst(plans, LAMBDA d : IsLivePlan(d, q.u, q.p))
    IN  /\ q.pc = "read_plan"
        /\ IF li = 0 THEN Finish(q, 405)
           ELSE IF ~llm_resp.status THEN Finish(q, 501)
           ELSE /\ Advance(q, [q EXCEPT !.pc = "write_task",
                                        !.prompts = plans[li].prompts,
                                        !.llm = llm_resp])
                /\ UNCHANGED log
        /\ UNCHANGED <<users, plans, tasks, medals, leaderboard, resp, trip, calls, auth, probe, snap>>

\* retask step 3: update_one on the task
RetaskTaskStep(q) ==
    LET ki == FindFirst(tasks, LAMBDA d : IsTaskKey(d, q.u, q.p, q.t))
    IN  /\ q.pc = "write_task"
        /\ tasks' = [tasks EXCEPT ![ki] = RetaskUpdate(tasks[ki], q.llm)]
        /\ Advance(q, [q EXCEPT !.pc = "write_plan"])
        /\ UNCHANGED <<users, plans, medals, leaderboard, resp, trip, log, calls, auth, probe, snap>>

\* retask step 4: find_one_and_update on the plan, $set of the prompts
\* array read in step 2 with its last element annotated
RetaskPlanStep(q) ==
    LET pi == FindFirst(plans, LAMBDA d : IsPlanKey(d, q.u, q.p))
    IN  /\ q.pc = "write_plan"
        /\ plans' = [plans EXCEPT ![pi].prompts = RetaskPrompts(q.prompts, q.t)]
        /\ Finish(q, 200)
        /\ UNCHANGED <<users, tasks, medals, leaderboard, resp, trip, calls, auth, probe, snap>>

DoStartCreate == \E u \in Users, goal \in Goals, drafts \in DraftSets : StartCreate(u, goal, drafts)
DoCreateUserStep == \E q \in InFlight : CreateUserStep(q)
DoCreatePlanStep == \E q \in InFlight : CreatePlanStep(q)
DoCreateTasksStep == \E q \in InFlight : CreateTasksStep(q)
DoStartReplan ==
    \E u \in Users, p \in PlanIds, goal \in ReplanGoals, llm_resp \in LlmResponses :
        StartReplan(u, p, goal, llm_resp)
DoReplanMarkStep == \E q \in InFlight : ReplanMarkStep(q)
DoReplanTasksStep == \E q \in InFlight : ReplanTasksStep(q)
DoReplanPlanStep == \E q \in InFlight : ReplanPlanStep(q)
DoStartRetask == \E k \in TaskKeys : StartRetask(k[1], k[2], k[3])
DoRetaskReadStep == \E q \in InFlight, llm_resp \in RetaskResponses : RetaskReadStep(q, llm_resp)
DoRetaskTaskStep == \E q \in InFlight : RetaskTaskStep(q)
DoRetaskPlanStep == \E q \in InFlight : RetaskPlanStep(q)

NextEdit ==
    DoStartCreate \/ DoCreateUserStep \/ DoCreatePlanStep \/ DoCreateTasksStep
    \/ DoStartReplan \/ DoReplanMarkStep \/ DoReplanTasksStep \/ DoReplanPlanStep
    \/ DoStartRetask \/ DoRetaskReadStep \/ DoRetaskTaskStep \/ DoRetaskPlanStep

SpecEdit == InitConc /\ [][NextEdit]_vars

\* ===================== CompleteTask / UndoTask on a full board (SpecTop)
\* a user registered before the run, who holds a leaderboard entry and
\* makes no call
SilentUser == [username |-> 0, score |-> 20]

\* the task records of users 1..n once each has created a plan from
\* ConcDrafts and had its second task modified, which moved it to RetaskDay
RECURSIVE TopTasks(_)
TopTasks(n) ==
    IF n = 0 THEN <<>>
    ELSE TopTasks(n - 1)
         \o <<NewTask(n, 1, 0, ConcDrafts[1], 1),
              RetaskUpdate(NewTask(n, 1, 1, ConcDrafts[2], 2),
                           [status |-> TRUE, difficulty |-> ConcDrafts[2],
                            deadline_date |-> RetaskDay])>>

\* the store after each user has created one plan and modified its second
\* task, with the silent user's entry on the leaderboard
InitTop ==
    /\ users = [u \in Users |-> [NewUser EXCEPT !.n_plans = 1, !.active_plans = {1}]]
    /\ plans = [u \in Users |->
                  [NewPlan(u, 1, Len(ConcDrafts), 1, ConcDrafts)
                      EXCEPT !.prompts = RetaskPrompts(@, 1)]]
    /\ tasks = TopTasks(NUsers)
    /\ medals = NoMedals
    /\ leaderboard = <<SilentUser>>
    /\ resp = NoResp
    /\ trip = NoTrip
    /\ procs = EmptyBag
    /\ log = EmptyBag
    /\ calls = 0
    /\ auth = TRUE
    /\ probe = NoProbe
    /\ snap = NoSnap

NextTop == ShortCompleteTask \/ ShortUndoTask

SpecTop == InitTop /\ [][NextTop]_vars

\* ======================== one call at a time, step by step (SpecStep)
\* task_done and task_undo as in SpecConc with one request in flight. A
\* request may stop between two storage calls (the worker dies, the client
\* gets no answer), and the medal and leaderboard blocks may raise inside
\* their try.
\* the status logged for a call that stopped without an answer
NoAnswer == 0

\* snap: the stores as the call in flight found them, the handler it
\* started as, where it stopped ("run" while it has not), the blocks that
\* raised in it, and the handlers that stopped in earlier calls
Snapshot(at) ==
    [users |-> users, plans |-> plans, tasks |-> tasks, medals |-> medals,
     leaderboard |-> leaderboard, at |-> at, faults |-> {},
     q |-> IF procs' = procs THEN Handler("none", "none", 0, 0, NoTask, 0, 0)
           ELSE CHOOSE h \in BagToSet(procs') : TRUE,
     stops |-> IF snap = NoSnap THEN {} ELSE snap.stops]

StepStartDone ==
    /\ AllIdle
    /\ calls < MaxStepCalls
    /\ DoStartDone
    /\ snap' = Snapshot(IF procs' = procs THEN "none" ELSE "run")

StepStartUndo ==
    /\ AllIdle
    /\ calls < MaxStepCalls
    /\ DoStartUndo
    /\ snap' = Snapshot(IF procs' = procs THEN "none" ELSE "run")

\* a medal block whose exception reaches the client
MedalFail_Raises(q) ==
    /\ q.pc = "medal"
    /\ Finish(q, 500)
    /\ snap' = [snap EXCEPT !.faults = @ \cup {"medal"}]
    /\ UNCHANGED <<users, plans, tasks, medals, leaderboard, resp, trip, calls, auth, probe>>

\* the medal block raises: task_done's find_many or $pull fails and
\* nothing is written, or its $push fails after the $pull; task_undo's $pull
\* fails. The except clause logs and the handler goes on
MedalFail(q) ==
    /\ q.pc = "medal"
    /\ \/ UNCHANGED medals
       \/ q.op = "done" /\ medals' = MedalPull(medals, q.u, q.day, q.t)
    /\ Advance(q, [q EXCEPT !.pc = "pull"])
    /\ snap' = [snap EXCEPT !.faults = @ \cup {"medal"}]
    /\ UNCHANGED <<users, plans, tasks, leaderboard, resp, trip, log, calls, auth, probe>>

\* the leaderboard block raises at its $pull or at its $push; the except
\* clause logs and the handler returns the score
LeaderFail(q) ==
    /\ q.pc \in {"pull", "push"}
    /\ Finish(q, 200)
    /\ snap' = [snap EXCEPT !.faults = @ \cup {"leaderboard"}]
    /\ UNCHANGED <<users, plans, tasks, medals, leaderboard, resp, trip, calls, auth, probe>>

\* the handler stops where it is: no further storage call, no answer
Crash(q) ==
    /\ log' = log (+) SetToBag({Call(q.op, q.u, q.p, q.t, NoAnswer, FALSE)})
    /\ procs' = procs (-) SetToBag({q})
    /\ snap' = [snap EXCEPT !.at = q.pc, !.stops = @ \cup {q}]
    /\ UNCHANGED <<users, plans, tasks, medals, leaderboard, resp, trip, calls, auth, probe>>

DoMedalFail == \E q \in InFlight : MedalFail(q)
DoLeaderFail == \E q \in InFlight : LeaderFail(q)
DoCrash == \E q \in InFlight : Crash(q)

NextStep ==
    StepStartDone \/ StepStartUndo \/ DoUndoTaskStep \/ DoPlanStep
    \/ DoUserStep \/ DoMedalStep \/ DoPullStep \/ DoPushStep
    \/ DoMedalFail \/ DoLeaderFail \/ DoCrash

SpecStep == InitTop /\ [][NextStep]_vars

\* ========================================= _medal_grade alone (SpecGrade)
\* the counts _medal_grade may be handed
Counts == (0 - 1)..MaxTotal

InitGrade ==
    /\ users = [u \in Users |-> NewUser]
    /\ plans = <<>>
    /\ tasks = <<>>
    /\ medals = NoMedals
    /\ leaderboard = <<>>
    /\ resp = NoResp
    /\ trip = NoTrip
    /\ procs = EmptyBag
    /\ log = EmptyBag
    /\ calls = 0
    /\ auth = TRUE
    /\ probe \in {[completed |-> c, total |-> t, grade |-> "unset"] : c \in Counts, t \in Counts}
    /\ snap = NoSnap

\* one evaluation of _medal_grade
Grade ==
    /\ probe.grade = "unset"
    /\ probe' = [probe EXCEPT !.grade = medal_grade(probe.completed, probe.total)]
    /\ UNCHANGED <<users, plans, tasks, medals, leaderboard, resp, trip, procs, log, calls,
                   auth, snap>>

SpecGrade == InitGrade /\ [][Grade]_vars

\* ================================================================ claims
\* sum of the scores of u's completed, non-deleted tasks
CompletedScore(u) ==
    SumSeq([i \in 1..Len(tasks) |->
              IF tasks[i].user_id = u /\ tasks[i].completed_at # None /\ tasks[i].deleted = FALSE
              THEN tasks[i].score ELSE 0])

\* number of completed, non-deleted tasks of plan (u, p)
CompletedCount(u, p) ==
    Cardinality({i \in 1..Len(tasks) :
                   /\ tasks[i].user_id = u /\ tasks[i].plan_id = p
                   /\ tasks[i].completed_at # None /\ tasks[i].deleted = FALSE})

\* C1: after any sequence of CompleteTask and UndoTask calls run one at a
\* time (on plans made by CreatePlan), every user's score is the sum of the
\* scores of that user's completed, non-deleted tasks.
C1_ScoreIsSumOfCompleted == \A u \in Users : users[u].score = CompletedScore(u)

\* an UndoTask has succeeded for a user who still has a completed task
C1_Witness ==
    /\ resp.op = "undo" /\ resp.status = 200
    /\ users[resp.u].score > 0
    /\ \E i \in 1..Len(tasks) : tasks[i].user_id = resp.u /\ tasks[i].completed_at # None

\* ---- C2
OnKey(c, k) == c.u = k[1] /\ c.p = k[2] /\ c.t = k[3]

CallsOn(k) == {c \in BagToSet(log) : OnKey(c, k)}

OnlyDone == \A c \in BagToSet(log) : c.op = "done"

\* number of finished calls on k that returned 200
Succeeded(k) == BagCardinality([c \in {d \in CallsOn(k) : d.status = 200} |-> log[c]])

\* the task keys of user u (of plan p) that some finished call names
CalledKeysOf(u) == {k \in TaskKeys : k[1] = u /\ CallsOn(k) # {}}

CalledKeysOfPlan(u, p) == {k \in CalledKeysOf(u) : k[2] = p}

KeyScore(k) == tasks[FindFirst(tasks, LAMBDA d : IsTaskKey(d, k[1], k[2], k[3]))].score

RECURSIVE SumKeys(_)
SumKeys(K) == IF K = {} THEN 0 ELSE LET k == CHOOSE x \in K : TRUE IN KeyScore(k) + SumKeys(K \ {k})

\* C2: when all calls have finished and they were CompleteTask calls on
\* tasks that started incomplete, each called task has exactly one call that
\* succeeded while every other call on it got 404, and User.score,
\* User.n_tasks_done and Plan.n_tasks_done were incremented once per task.
C2_CompleteOnce ==
    (AllIdle /\ OnlyDone) =>
        /\ \A k \in TaskKeys : CallsOn(k) # {} =>
              /\ Succeeded(k) = 1
              /\ \A c \in CallsOn(k) : c.status \in {200, 404}
        /\ \A u \in Users :
              /\ users[u].score = SumKeys(CalledKeysOf(u))
              /\ users[u].n_tasks_done = Cardinality(CalledKeysOf(u))
        /\ \A i \in 1..Len(plans) :
              plans[i].n_tasks_done =
                  Cardinality(CalledKeysOfPlan(plans[i].user_id, plans[i].plan_id))

\* two CompleteTask calls on one task overlapped: the losing call returned
\* 404 while the winning call, which later returned 200, was in flight
C2_Witness ==
    /\ AllIdle /\ OnlyDone
    /\ \E k \in TaskKeys :
          /\ Succeeded(k) = 1
          /\ \E c \in CallsOn(k) : c.status = 404 /\ c.overlap

\* ---- C3
TripPlan == plans[FindFirst(plans, LAMBDA d : IsPlanKey(d, trip.u, trip.p))]

\* C3: a successful CompleteTask immediately followed by a successful
\* UndoTask on the same task leaves User.score, Plan.n_tasks_done and
\* Plan.completed_at as they were before the CompleteTask.
C3_RoundTrip ==
    trip.phase = "undone" =>
        /\ users[trip.u].score = trip.score
        /\ TripPlan.n_tasks_done = trip.n_tasks_done
        /\ TripPlan.completed_at = trip.completed_at

\* ---- C4
\* C4: in every state, also between the pull and the push of a leaderboard
\* update and under overlapping requests, the leaderboard has at most K
\* entries ordered by score descending, then username ascending.
C4_LeaderboardCappedSorted ==
    /\ Len(leaderboard) <= LeaderK
    /\ \A i \in 1..(Len(leaderboard) - 1) :
          \/ Before(leaderboard[i], leaderboard[i + 1])
          \/ leaderboard[i] = leaderboard[i + 1]

\* a request sits between its pull and its push while the list is full, so
\* its push has to sort the new entry in and trim
C4_Witness ==
    /\ Len(leaderboard) = LeaderK
    /\ \E q \in InFlight : q.pc = "push" /\ q.user_score > leaderboard[LeaderK].score

\* ---- C5
\* C5: in every state, also when requests of one user interleave their
\* leaderboard pull and push, the leaderboard has at most one entry per
\* username.
C5_UniqueUsernames ==
    \A i, j \in 1..Len(leaderboard) :
        i # j => leaderboard[i].username # leaderboard[j].username

\* ---- C6
\* C6: after any sequence of CreatePlan, CompleteTask, UndoTask, Replan,
\* Retask and DeletePlan calls, User.score is the sum of the scores of the
\* user's completed, non-deleted tasks.
C6_ScoreIsSumAllOps == \A u \in Users : users[u].score - CompletedScore(u) = 0

\* ---- C7
PlanConsistent(pl) ==
    /\ pl.n_tasks_done = CompletedCount(pl.user_id, pl.plan_id)
    /\ (pl.completed_at # None <=> pl.n_tasks_done >= pl.n_tasks)
    /\ (pl.plan_id \in users[pl.user_id].active_plans <=> pl.completed_at = None)

\* C7: when the only calls run are one CompleteTask and one UndoTask on the
\* same task, once both have finished the plan's n_tasks_done, completed_at
\* and membership in active_plans agree with the task records.
C7_DoneUndoConsistent ==
    \A k \in TaskKeys :
        (/\ AllIdle
         /\ BagCardinality(log) = 2
         /\ \E c, d \in CallsOn(k) : c.op = "done" /\ d.op = "undo")
        => \A n \in 1..Len(plans) :
               IsPlanKey(plans[n], k[1], k[2]) => PlanConsistent(plans[n])

\* ---- C8
\* C8: a plan's completed_at is non-null iff n_tasks_done >= n_tasks > 0.
C8_CompletedIffAllDone ==
    \A n \in 1..Len(plans) :
        plans[n].completed_at # None <=>
            (plans[n].n_tasks_done >= plans[n].n_tasks /\ plans[n].n_tasks > 0)

\* ---- C9
\* C9: every plan_id in a user's active_plans is a plan of that user with
\* deleted = false and completed_at = null.
C9_ActivePlansAreOpen ==
    \A u \in Users : \A pid \in users[u].active_plans :
        \E n \in 1..Len(plans) :
            /\ IsPlanKey(plans[n], u, pid)
            /\ plans[n].deleted = FALSE
            /\ plans[n].completed_at = None

\* ---- C10
\* C10: every plan with deleted = false and completed_at = null is in its
\* user's active_plans.
C10_OpenPlansAreActive ==
    \A n \in 1..Len(plans) :
        (plans[n].deleted = FALSE /\ plans[n].completed_at = None)
            => plans[n].plan_id \in users[plans[n].user_id].active_plans

\* ---- C11
\* the plan record of (u, p) in a plans collection
PlanOf(ps, u, p) == ps[FindFirst(ps, LAMBDA d : IsPlanKey(d, u, p))]

\* the step is a call of op that returned 200
Succeeds(op) == resp'.op = op /\ resp'.status = 200

TaskIdsUnique ==
    \A i, j \in 1..Len(tasks) :
        (i # j /\ tasks[i].user_id = tasks[j].user_id /\ tasks[i].plan_id = tasks[j].plan_id)
            => tasks[i].task_id # tasks[j].task_id

ReplanIdsFresh ==
    Succeeds("replan") =>
        \A i \in (Len(tasks) + 1)..Len(tasks') :
            tasks'[i].task_id >= PlanOf(plans, resp'.u, resp'.p).next_task_id

\* C11: no two task records of one plan, deleted or not, share a task_id,
\* and every task a Replan creates has a task_id at or above the plan's
\* next_task_id as it stood before that Replan.
C11_ReplanIdsFresh == []TaskIdsUnique /\ [][ReplanIdsFresh]_vars

\* a plan has been replanned twice
C11_Witness ==
    /\ resp.op = "replan" /\ resp.status = 200
    /\ PlanOf(plans, resp.u, resp.p).n_replans = 2

\* ---- C12
CompleteStampsPlan ==
    Succeeds("done") =>
        LET u == resp'.u
            p == resp'.p
            old == PlanOf(plans, u, p)
            new == PlanOf(plans', u, p)
        IN  /\ (old.completed_at = None /\ new.n_tasks > 0 /\ new.n_tasks_done >= new.n_tasks)
                => (new.completed_at # None /\ p \notin users'[u].active_plans)
            /\ new.n_tasks_done < new.n_tasks
                => (new.completed_at = None /\ users'[u].active_plans = users[u].active_plans)

\* C12: a successful CompleteTask that brings n_tasks_done up to n_tasks
\* (n_tasks > 0) on a plan whose completed_at is null sets completed_at and
\* takes plan_id out of active_plans; one that leaves n_tasks_done below
\* n_tasks leaves completed_at null and active_plans as it was.
C12_CompleteStampsPlan == [][CompleteStampsPlan]_vars

\* the second task of a two-task plan has just been completed
C12_Witness ==
    /\ resp.op = "done" /\ resp.status = 200
    /\ PlanOf(plans, resp.u, resp.p).n_tasks = 2
    /\ PlanOf(plans, resp.u, resp.p).n_tasks_done = 2
    /\ PlanOf(plans, resp.u, resp.p).completed_at # None
    /\ resp.p \notin users[resp.u].active_plans

\* ---- C13
UndoReverts ==
    Succeeds("undo") =>
        LET u == resp'.u
            p == resp'.p
            ti == FindFirst(tasks, LAMBDA d : IsCompletedTask(d, u, p, resp'.t))
            old == PlanOf(plans, u, p)
            new == PlanOf(plans', u, p)
        IN  /\ ti # 0
            /\ tasks'[ti].completed_at = None
            /\ new.n_tasks_done = Max(0, old.n_tasks_done - 1)
            /\ new.n_tasks_done >= 0
            /\ new.completed_at = None
            /\ users'[u].score = users[u].score - tasks[ti].score
            /\ users'[u].n_tasks_done = users[u].n_tasks_done - 1
            /\ p \in users'[u].active_plans

\* C13: a successful UndoTask clears the task's completed_at, lowers
\* Plan.n_tasks_done by one but not below 0, clears Plan.completed_at, takes
\* the task's score off User.score, lowers User.n_tasks_done by one and
\* leaves plan_id in active_plans.
C13_UndoReverts == [][UndoReverts]_vars

\* the only task of a completed plan has just been undone: the plan is open
\* and active again
C13_Witness ==
    /\ resp.op = "undo" /\ resp.status = 200
    /\ PlanOf(plans, resp.u, resp.p).n_tasks = 1
    /\ PlanOf(plans, resp.u, resp.p).n_tasks_done = 0
    /\ PlanOf(plans, resp.u, resp.p).completed_at = None
    /\ resp.p \in users[resp.u].active_plans
    /\ users[resp.u].score = 0

\* ---- C14
OfPlan(d, u, p) == d.user_id = u /\ d.plan_id = p

DeleteKeepsCompleted ==
    Succeeds("delete") =>
        LET u == resp'.u
            p == resp'.p
        IN  /\ PlanOf(plans', u, p).deleted = TRUE
            /\ Len(tasks') = Len(tasks)
            /\ \A i \in 1..Len(tasks) :
                  IF OfPlan(tasks[i], u, p) /\ tasks[i].completed_at = None
                  THEN tasks'[i] = [tasks[i] EXCEPT !.deleted = TRUE]
                  ELSE tasks'[i] = tasks[i]
            /\ users'[u].score = users[u].score
            /\ p \notin users'[u].active_plans

\* C14: DeletePlan on an existing plan marks the plan deleted, marks deleted
\* exactly the plan's tasks whose completed_at is null, leaves every
\* completed task's deleted flag and completed_at alone, leaves User.score
\* alone and takes plan_id out of active_plans.
C14_DeleteKeepsCompleted == [][DeleteKeepsCompleted]_vars

\* a plan with one completed and one pending task has just been deleted
C14_Witness ==
    /\ resp.op = "delete" /\ resp.status = 200
    /\ users[resp.u].score > 0
    /\ \E i, j \in 1..Len(tasks) :
          /\ OfPlan(tasks[i], resp.u, resp.p) /\ OfPlan(tasks[j], resp.u, resp.p)
          /\ tasks[i].completed_at # None /\ tasks[i].deleted = FALSE
          /\ tasks[j].completed_at = None /\ tasks[j].deleted = TRUE

\* the five stores a handler writes
Stores == <<users, plans, tasks, medals, leaderboard>>

\* C15: CompleteTask succeeds only on a task record that exists, is not
\* soft-deleted and is not completed, and UndoTask only on one that exists,
\* is not soft-deleted and is completed; on any other task the call of a
\* signed-in user answers 404, and a 404 leaves every task, plan, user and
\* leaderboard record as it was.
NotFoundChangesNothing ==
    /\ (resp'.op \in {"done", "undo"} /\ resp'.status = 404) => UNCHANGED Stores
    /\ (resp' # resp /\ resp'.op \in {"done", "undo"}) => resp'.status \in {200, 404, 401}
    /\ Succeeds("done") =>
          \E i \in 1..Len(tasks) :
             /\ tasks[i].user_id = resp'.u /\ tasks[i].plan_id = resp'.p
             /\ tasks[i].task_id = resp'.t
             /\ tasks[i].deleted = FALSE /\ tasks[i].completed_at = None
    /\ Succeeds("undo") =>
          \E i \in 1..Len(tasks) :
             /\ tasks[i].user_id = resp'.u /\ tasks[i].plan_id = resp'.p
             /\ tasks[i].task_id = resp'.t
             /\ tasks[i].deleted = FALSE /\ tasks[i].completed_at # None

C15_NotFoundChangesNothing == [][NotFoundChangesNothing]_vars

\* a 404 of CompleteTask or UndoTask while the user holds a completed task,
\* an open task and a leaderboard entry
C15_Witness ==
    /\ resp.op \in {"done", "undo"} /\ resp.status = 404
    /\ leaderboard # <<>>
    /\ \E i, j \in 1..Len(tasks) :
          /\ tasks[i].user_id = tasks[j].user_id
          /\ tasks[i].completed_at # None /\ tasks[j].completed_at = None
          /\ ~tasks[i].deleted /\ ~tasks[j].deleted

\* C16: a call whose token no session carries answers 401 and leaves every
\* task, plan, user and leaderboard record as it was, whichever of the six
\* operations it is.
RejectedTokenChangesNothing ==
    /\ auth' = FALSE => (resp'.status = 401 /\ UNCHANGED Stores)
    /\ resp'.status = 401 => UNCHANGED Stores

C16_RejectedTokenChangesNothing == [][RejectedTokenChangesNothing]_vars

\* a rejected DeletePlan call while a plan with a completed task is stored
C16_Witness ==
    /\ resp.op = "delete" /\ resp.status = 401 /\ auth = FALSE
    /\ \E i \in 1..Len(plans) : plans[i].n_tasks_done > 0 /\ ~plans[i].deleted

\* C17: a successful Replan that keeps m >= 1 drafts leaves the plan with
\* n_replans one higher, n_tasks = m, n_tasks_done = 0 and completed_at
\* unset; every task record the plan had before is soft-deleted; and the
\* plan's task records that are not soft-deleted are exactly the m records
\* the call inserted, none of them completed.
ReplanReplacesTasks ==
    Succeeds("replan") =>
       LET u == resp'.u
           p == resp'.p
           old == PlanOf(plans, u, p)
           new == PlanOf(plans', u, p)
           m == Len(tasks') - Len(tasks)
       IN  /\ m >= 1
           /\ new.n_replans = old.n_replans + 1
           /\ new.n_tasks = m
           /\ new.n_tasks_done = 0
           /\ new.completed_at = None
           /\ \A i \in 1..Len(tasks) :
                 /\ OfPlan(tasks'[i], u, p) <=> OfPlan(tasks[i], u, p)
                 /\ OfPlan(tasks[i], u, p) => tasks'[i].deleted = TRUE
                 /\ ~OfPlan(tasks[i], u, p) => tasks'[i] = tasks[i]
           /\ \A i \in (Len(tasks) + 1)..Len(tasks') :
                 /\ OfPlan(tasks'[i], u, p)
                 /\ tasks'[i].deleted = FALSE
                 /\ tasks'[i].completed_at = None

C17_ReplanReplacesTasks == [][ReplanReplacesTasks]_vars

\* a replan has succeeded on a plan that held a completed task, and the
\* oracle's answer held a draft that normalisation dropped
C17_Witness ==
    /\ resp.op = "replan" /\ resp.status = 200
    /\ \E i \in 1..Len(tasks) :
          /\ OfPlan(tasks[i], resp.u, resp.p)
          /\ tasks[i].deleted /\ tasks[i].completed_at # None
    /\ LET pl == PlanOf(plans, resp.u, resp.p)
           last == pl.responses[Len(pl.responses)]
       IN  \E k \in 1..Len(last) : last[k] = BadDraft

\* C18: a Replan whose oracle call fails, returns no drafts or returns only
\* drafts that normalisation drops answers 502 and changes nothing: no task
\* is soft-deleted or inserted and no plan field changes; a Replan that
\* succeeds was given at least one draft that normalisation keeps.
BadGatewayChangesNothing ==
    /\ (resp'.op = "replan" /\ resp'.status = 502) => UNCHANGED Stores
    /\ Succeeds("replan") =>
          LET pl == PlanOf(plans', resp'.u, resp'.p)
              last == pl.responses[Len(pl.responses)]
          IN  /\ \E k \in 1..Len(last) : last[k] # BadDraft
              /\ \A i \in (Len(tasks) + 1)..Len(tasks') : tasks'[i].difficulty # BadDraft

C18_BadGatewayChangesNothing == [][BadGatewayChangesNothing]_vars

\* a replan has answered 502 on a plan with a completed and an open task
C18_Witness ==
    /\ resp.op = "replan" /\ resp.status = 502
    /\ \E i \in 1..Len(plans) :
          /\ ~plans[i].deleted
          /\ plans[i].n_tasks_done > 0 /\ plans[i].n_tasks_done < plans[i].n_tasks

\* s continues r: r is a prefix of s
IsPrefix(r, s) == Len(r) <= Len(s) /\ \A k \in 1..Len(r) : s[k] = r[k]

\* C19: no call shortens a plan's prompts or responses or rewrites any
\* element of them other than the last prompt; a successful Replan appends
\* exactly one element to each array and changes no earlier element; a
\* successful Retask keeps the length of prompts and all its elements but
\* the last, and leaves responses alone.
HistoryAppendOnly ==
    /\ \A i \in 1..Len(plans) :
          /\ Len(plans'[i].prompts) >= Len(plans[i].prompts)
          /\ IsPrefix(SubSeq(plans[i].prompts, 1, Len(plans[i].prompts) - 1), plans'[i].prompts)
          /\ IsPrefix(plans[i].responses, plans'[i].responses)
    /\ Succeeds("replan") =>
          LET old == PlanOf(plans, resp'.u, resp'.p)
              new == PlanOf(plans', resp'.u, resp'.p)
          IN  /\ Len(new.prompts) = Len(old.prompts) + 1
              /\ IsPrefix(old.prompts, new.prompts)
              /\ Len(new.responses) = Len(old.responses) + 1
              /\ IsPrefix(old.responses, new.responses)
    /\ Succeeds("retask") =>
          LET old == PlanOf(plans, resp'.u, resp'.p)
              new == PlanOf(plans', resp'.u, resp'.p)
          IN  /\ Len(new.prompts) = Len(old.prompts)
              /\ new.prompts[Len(new.prompts)] # old.prompts[Len(old.prompts)]
              /\ new.responses = old.responses

C19_HistoryAppendOnly == [][HistoryAppendOnly]_vars

\* a retask has succeeded on a plan that was replanned before: two prompts,
\* the last one annotated, the first one not
C19_Witness ==
    /\ resp.op = "retask" /\ resp.status = 200
    /\ LET pl == PlanOf(plans, resp.u, resp.p)
       IN  /\ Len(pl.prompts) = 2 /\ Len(pl.responses) = 2
           /\ pl.prompts[1].notes = <<>>
           /\ pl.prompts[2].notes # <<>>

\* C20: a successful Retask on task t keeps the record's task_id, plan_id,
\* user_id and deleted flag and sets its completed_at to None; every other
\* task record is as it was; and no plan record differs from what it was in
\* anything but the last element of prompts of the task's plan.
RetaskFrame ==
    Succeeds("retask") =>
       LET u == resp'.u
           p == resp'.p
           t == resp'.t
       IN  /\ Len(tasks') = Len(tasks)
           /\ \A i \in 1..Len(tasks) :
                 IF tasks[i].user_id = u /\ tasks[i].plan_id = p /\ tasks[i].task_id = t
                 THEN /\ tasks'[i].task_id = t
                      /\ tasks'[i].plan_id = p
                      /\ tasks'[i].user_id = u
                      /\ tasks'[i].deleted = tasks[i].deleted
                      /\ tasks'[i].completed_at = None
                 ELSE tasks'[i] = tasks[i]
           /\ Len(plans') = Len(plans)
           /\ \A i \in 1..Len(plans) :
                 IF plans[i].user_id = u /\ plans[i].plan_id = p
                 THEN /\ plans'[i] = [plans[i] EXCEPT !.prompts = plans'[i].prompts]
                      /\ Len(plans'[i].prompts) = Len(plans[i].prompts)
                      /\ \A k \in 1..(Len(plans[i].prompts) - 1) :
                            plans'[i].prompts[k] = plans[i].prompts[k]
                 ELSE plans'[i] = plans[i]

C20_RetaskFrame == [][RetaskFrame]_vars

\* a retask has succeeded on a task that was completed: its plan counts a
\* completed task and holds two tasks, none of them completed
C20_Witness ==
    /\ resp.op = "retask" /\ resp.status = 200
    /\ LET pl == PlanOf(plans, resp.u, resp.p)
       IN  /\ pl.n_tasks = 2 /\ pl.n_tasks_done = 1
           /\ \A i \in 1..Len(tasks) :
                 OfPlan(tasks[i], resp.u, resp.p) => tasks[i].completed_at = None

\* C25: the grade of (completed, total) is None when total <= 0 or
\* completed = 0; with total > 0 it is G exactly when completed >= total, S
\* when 0.66 <= completed/total < 1, B when 0.33 <= completed/total < 0.66
\* (so B at exactly one third and S at exactly two thirds) and None when
\* 0 < completed/total < 0.33.
C25_MedalGrade ==
    probe.grade # "unset" =>
       LET c == probe.completed
           t == probe.total
           g == probe.grade
       IN  /\ (t <= 0 \/ c = 0) => g = "None"
           /\ t > 0 => (g = "G" <=> c >= t)
           /\ (t > 0 /\ 66 * t <= 100 * c /\ c < t) => g = "S"
           /\ (t > 0 /\ 33 * t <= 100 * c /\ 100 * c < 66 * t) => g = "B"
           /\ (t > 0 /\ 3 * c = t) => g = "B"
           /\ (t > 0 /\ 3 * c = 2 * t) => g = "S"
           /\ (t > 0 /\ 0 < c /\ 100 * c < 33 * t) => g = "None"

\* a ratio of exactly 0.66, which is below two thirds, has been graded
C25_Witness ==
    /\ probe.grade = "S"
    /\ 100 * probe.completed = 66 * probe.total

\* the entries of a medal record that carry task_id t, and the others
EntriesOf(entries, t) == SelectSeq(entries, LAMBDA e : e.task_id = t)

EntriesBut(entries, t) == SelectSeq(entries, LAMBDA e : e.task_id # t)

\* the day task (u, p, t) is due in store ts
DayOf(ts, u, p, t) == ts[FindFirst(ts, LAMBDA d : IsTaskKey(d, u, p, t))].deadline_date

\* number of u's non-deleted tasks due on day in store ts, and of those the
\* completed ones
DueCount(ts, u, day) ==
    Cardinality({i \in 1..Len(ts) :
                   ts[i].user_id = u /\ ~ts[i].deleted /\ ts[i].deadline_date = day})

DoneCount(ts, u, day) ==
    Cardinality({i \in 1..Len(ts) :
                   /\ ts[i].user_id = u /\ ~ts[i].deleted /\ ts[i].deadline_date = day
                   /\ ts[i].completed_at # None})

\* C27: after a successful CompleteTask on task t due on day d, the medal
\* record of (user, d) holds exactly one entry with task_id t, graded by the
\* ratio of completed to all non-deleted tasks of the user due on d, when
\* that grade is not None, and no entry with task_id t when it is None; the
\* entries with other task_ids and all other medal records are as before.
CompleteGradesDay ==
    Succeeds("done") =>
       LET u == resp'.u
           t == resp'.t
           d == DayOf(tasks, u, resp'.p, t)
           g == medal_grade(DoneCount(tasks', u, d), DueCount(tasks', u, d))
           mine == EntriesOf(medals'[u][d], t)
       IN  /\ g # "None" => (Len(mine) = 1 /\ mine[1].grade = g)
           /\ g = "None" => mine = <<>>
           /\ EntriesBut(medals'[u][d], t) = EntriesBut(medals[u][d], t)
           /\ \A v \in Users, e \in Days : (v # u \/ e # d) => medals'[v][e] = medals[v][e]

UndoPullsEntry ==
    Succeeds("undo") =>
       LET u == resp'.u
           t == resp'.t
           d == DayOf(tasks, u, resp'.p, t)
       IN  /\ EntriesOf(medals'[u][d], t) = <<>>
           /\ EntriesBut(medals'[u][d], t) = EntriesBut(medals[u][d], t)
           /\ \A v \in Users, e \in Days : (v # u \/ e # d) => medals'[v][e] = medals[v][e]

C28_UndoPullsEntry == [][UndoPullsEntry]_vars

\* an UndoTask has succeeded on one of two tasks that were both completed
\* and due the same day: the other task's entry is all the record holds
C28_Witness ==
    /\ resp.op = "undo" /\ resp.status = 200
    /\ LET d == DayOf(tasks, resp.u, resp.p, resp.t)
       IN  /\ Len(medals[resp.u][d]) = 1
           /\ medals[resp.u][d][1].task_id # resp.t

\* C26: in every state between calls, a medal record of (user, day) holds
\* an entry graded G only if every non-deleted task of the user due that day
\* is completed, and holds no entry when none of them is completed.
C26_GoldMeansAllDone ==
    \A u \in Users, d \in Days :
       /\ (\E k \in 1..Len(medals[u][d]) : medals[u][d][k].grade = "G")
             => DoneCount(tasks, u, d) = DueCount(tasks, u, d)
       /\ DoneCount(tasks, u, d) = 0 => medals[u][d] = <<>>

\* the entry a user's current score makes
EntryOf(u) == [username |-> u, score |-> users[u].score]

\* positions of the leaderboard that carry the username
PlacesOf(items, name) == {i \in 1..Len(items) : items[i].username = name}

\* C29: after a successful CompleteTask or UndoTask of a user the
\* leaderboard holds exactly one entry for the user, with the user's current
\* score, or it holds no entry for the user and K entries that all rank
\* ahead of the user's current score.
OwnEntryOrOutranked ==
    (Succeeds("done") \/ Succeeds("undo")) =>
       LET u == resp'.u
           own == [username |-> u, score |-> users'[u].score]
           at == PlacesOf(leaderboard', u)
       IN  \/ /\ Cardinality(at) = 1
              /\ \A i \in at : leaderboard'[i] = own
           \/ /\ at = {}
              /\ Len(leaderboard') = LeaderK
              /\ \A i \in 1..Len(leaderboard') : Before(leaderboard'[i], own)

C29_OwnEntryOrOutranked == [][OwnEntryOrOutranked]_vars

\* a CompleteTask has succeeded for a user whom the full leaderboard leaves
\* out
C29_Witness ==
    /\ resp.op = "done" /\ resp.status = 200
    /\ PlacesOf(leaderboard, resp.u) = {}
    /\ Len(leaderboard) = LeaderK

\* the users that have had a score mutation: those that hold points or an
\* entry, and the silent user
Scored == {u \in Users : users[u].score > 0 \/ PlacesOf(leaderboard, u) # {}}

RECURSIVE EntriesOfUsers(_)
EntriesOfUsers(S) ==
    IF S = {} THEN <<>>
    ELSE LET u == CHOOSE x \in S : TRUE IN <<EntryOf(u)>> \o EntriesOfUsers(S \ {u})

\* C30: between calls the leaderboard holds the min(K, n) highest-ranked
\* entries among the n users that have had a score mutation, each with the
\* user's current score.
C30_BoardIsTopK ==
    leaderboard = SliceItems(SortItems(<<SilentUser>> \o EntriesOfUsers(Scored)), LeaderK)

\* ---------------------------------------------------------------- C21
\* the call SpecStep has in flight, or had last
LastCall(status) == Call(snap.q.op, snap.q.u, snap.q.p, snap.q.t, status, FALSE)

\* the handler returns in this step
Returns == ~AllIdle /\ procs' = EmptyBag /\ snap'.at = "run"

\* C21: a failure of the medal writes or of the leaderboard writes of a
\* CompleteTask or UndoTask call does not fail the call: once the user write
\* is made, no step of the call changes the task, plan and user records, the
\* call can only return 200 with the score the user record holds, and after
\* a failure of the medal writes the handler stands at the leaderboard pull,
\* whose pull and push then leave the user's entry as in a call without
\* failure.
SwallowedFailures ==
    \A q \in InFlight :
        q.pc \in {"medal", "pull", "push"} =>
            /\ UNCHANGED <<users, plans, tasks>>
            /\ q.user_score = users[q.u].score
            /\ Returns =>
                  /\ log' = log (+) SetToBag({LastCall(200)})
                  /\ snap'.faults = {"medal"} =>
                        leaderboard' = LeaderboardPush(LeaderboardPull(snap.leaderboard, q.u),
                                                       q.u, users[q.u].score)
            /\ ("medal" \in snap'.faults /\ "medal" \notin snap.faults) =>
                  \E r \in BagToSet(procs') : r.pc = "pull" /\ r.user_score = q.user_score

C21_SwallowedFailures == [][SwallowedFailures]_vars

\* a call whose medal block and leaderboard block both raised has returned
\* 200 and left the score it added on the user record
C21_Witness ==
    /\ AllIdle
    /\ snap # NoSnap
    /\ snap.at = "run"
    /\ snap.faults = {"medal", "leaderboard"}
    /\ snap.q.op = "done"
    /\ LastCall(200) \in BagToSet(log)
    /\ users[snap.q.u].score = snap.users[snap.q.u].score + snap.q.score
    /\ snap.q.score > 0

\* ---------------------------------------------------------------- C22
\* the records a complete execution of the call of snap s leaves
FullTasks(s) ==
    LET ti == FindFirst(s.tasks, LAMBDA d : IsTaskKey(d, s.q.u, s.q.p, s.q.t))
    IN  [s.tasks EXCEPT ![ti].completed_at = IF s.q.op = "done" THEN Now ELSE None]

FullPlans(s) ==
    LET pi == FindFirst(s.plans, LAMBDA d : IsPlanKey(d, s.q.u, s.q.p))
    IN  [s.plans EXCEPT ![pi] = IF s.q.op = "done" THEN PlanDoneUpdate(@)
                                ELSE PlanUndoUpdate(@)]

FullUsers(s) ==
    LET pi == FindFirst(s.plans, LAMBDA d : IsPlanKey(d, s.q.u, s.q.p))
    IN  [s.users EXCEPT ![s.q.u] =
            IF s.q.op = "done"
            THEN UserDoneUpdate(@, s.q.p, s.q.score, FullPlans(s)[pi].completed_at)
            ELSE UserUndoUpdate(@, s.q.p, s.q.score)]

FullMedals(s) ==
    IF s.q.op = "done" THEN MedalDoneUpdate(s.medals, FullTasks(s), s.q.u, s.q.t, s.q.day)
    ELSE MedalPull(s.medals, s.q.u, s.q.day, s.q.t)

FullBoard(s) ==
    LeaderboardPush(LeaderboardPull(s.leaderboard, s.q.u), s.q.u, FullUsers(s)[s.q.u].score)

\* where the call of snap stands: the position of its handler, where it
\* stopped, or "end" once it has returned
Position ==
    IF ~AllIdle THEN (CHOOSE q \in InFlight : TRUE).pc
    ELSE IF snap.at = "run" THEN "end" ELSE snap.at

\* the number of steps made at a position
StepsDone(pc) ==
    CASE pc = "task" -> 0
      [] pc = "plan" -> 1
      [] pc = "user" -> 2
      [] pc = "medal" -> 3
      [] pc \in {"pull", "push"} -> 4
      [] pc = "end" -> 5

\* C22: CompleteTask and UndoTask write Task, Plan, User, Medal,
\* Leaderboard in this order: wherever a call without failed write stands
\* or has stopped, after N steps the records of steps 1..N hold the values
\* of a complete execution and the records of the later steps are as the
\* call found them (between the two leaderboard writes the user's entry is
\* pulled and nothing else has changed).
C22_StepsInOrder ==
    (snap # NoSnap /\ snap.at # "none" /\ snap.faults = {}) =>
        LET n == StepsDone(Position)
        IN  /\ tasks = IF n >= 1 THEN FullTasks(snap) ELSE snap.tasks
            /\ plans = IF n >= 2 THEN FullPlans(snap) ELSE snap.plans
            /\ users = IF n >= 3 THEN FullUsers(snap) ELSE snap.users
            /\ medals = IF n >= 4 THEN FullMedals(snap) ELSE snap.medals
            /\ leaderboard = IF n >= 5 THEN FullBoard(snap)
                             ELSE IF Position = "push"
                             THEN LeaderboardPull(snap.leaderboard, snap.q.u)
                             ELSE snap.leaderboard

\* a completion that stopped after its user write: task, plan and user
\* carry the completion, no medal entry is written and the leaderboard is
\* as before
C22_Witness ==
    /\ AllIdle
    /\ snap # NoSnap
    /\ snap.at = "medal"
    /\ snap.faults = {}
    /\ snap.q.op = "done"
    /\ users[snap.q.u].score = snap.users[snap.q.u].score + snap.q.score
    /\ plans[snap.q.u].n_tasks_done = snap.plans[snap.q.u].n_tasks_done + 1
    /\ medals = snap.medals
    /\ medals # FullMedals(snap)
    /\ leaderboard = snap.leaderboard

\* ---------------------------------------------------------------- C23
\* C23: when a CompleteTask stopped after its task write and before its
\* plan and user writes, the next CompleteTask or UndoTask of the same user
\* on the same plan that returns 200 leaves Plan.n_tasks_done equal to the
\* number of completed live tasks of the plan and User.score equal to the
\* sum of the scores of the user's completed live tasks.
C23_NextCallRepairs ==
    (AllIdle /\ snap # NoSnap /\ snap.at = "run" /\ LastCall(200) \in BagToSet(log)) =>
        \A s \in snap.stops :
            (s.op = "done" /\ s.pc = "plan" /\ s.u = snap.q.u /\ s.p = snap.q.p) =>
                /\ PlanOf(plans, s.u, s.p).n_tasks_done = CompletedCount(s.u, s.p)
                /\ users[s.u].score = CompletedScore(s.u)

\* ---------------------------------------------------------------- C24
\* C24: after a CompleteTask that stopped after one of its steps and a
\* second CompleteTask of the same task that was answered, the task is
\* completed and the plan and the user carry the completion exactly once,
\* as after one uninterrupted CompleteTask.
C24_RetryCompletes ==
    (AllIdle /\ snap # NoSnap /\ calls = 2) =>
        \A s \in snap.stops :
            (/\ s.op = "done"
             /\ \E c \in BagToSet(log) :
                   c.op = "done" /\ OnKey(c, <<s.u, s.p, s.t>>) /\ c.status # NoAnswer) =>
                /\ \E i \in 1..Len(tasks) :
                      IsTaskKey(tasks[i], s.u, s.p, s.t) /\ tasks[i].completed_at # None
                /\ PlanOf(plans, s.u, s.p).n_tasks_done = 1
                /\ users[s.u].n_tasks_done = 1
                /\ users[s.u].score = s.score

\* ---------------------------------------------------------------- C35
\* no UndoTask has been called so far
NoUndoYet == OnlyDone /\ \A q \in InFlight : q.op = "done"

\* both tasks of plan (u, 1) were completed by calls that returned 200 and
\* nothing else was called on the plan
BothCompleted(u) ==
    /\ AllIdle
    /\ NoUndoYet
    /\ Succeeded(<<u, 1, 0>>) = 1
    /\ Succeeded(<<u, 1, 1>>) = 1

\* a step stamps completed_at only on a null value and only with the
\* increment that reaches n_tasks, and never touches a stamp that is set
StampOnce ==
    NoUndoYet =>
        \A i \in 1..Len(plans) :
            /\ plans[i].completed_at # None => plans'[i].completed_at = plans[i].completed_at
            /\ (plans[i].completed_at = None /\ plans'[i].completed_at # None) =>
                  /\ plans'[i].n_tasks_done = plans[i].n_tasks
                  /\ plans[i].n_tasks_done = plans[i].n_tasks - 1
                  /\ \E q \in InFlight :
                        /\ q.op = "done" /\ q.pc = "plan"
                        /\ q.u = plans[i].user_id /\ q.p = plans[i].plan_id
                        /\ [q EXCEPT !.pc = "user", !.plan_completed_at = plans'[i].completed_at]
                              \in BagToSet(procs')

BothCompletedClosesPlan ==
    \A u \in Users :
        BothCompleted(u) =>
            /\ plans[u].n_tasks_done = plans[u].n_tasks
            /\ plans[u].completed_at # None
            /\ users[u].score = SumSeq(ConcDrafts) * 10
            /\ 1 \notin users[u].active_plans

\* C35: when the two open tasks of a plan are completed by two CompleteTask
\* calls, in any interleaving of their steps, then after both have returned
\* Plan.n_tasks_done = n_tasks, Plan.completed_at is set, User.score has
\* grown by both scores and the plan is not in active_plans; completed_at
\* is written in one step only, by the increment that reaches n_tasks.
C35_BothCompletedClosesPlan == []BothCompletedClosesPlan /\ [][StampOnce]_vars

\* the two calls overlapped: both returned 200 while the other was in
\* flight
C35_Witness ==
    \E u \in Users :
        /\ BothCompleted(u)
        /\ \A t \in {0, 1} :
              \E c \in CallsOn(<<u, 1, t>>) : c.status = 200 /\ c.overlap

\* ---------------------------------------------------------------- C36
\* the only two calls were a CompleteTask on the open task and an UndoTask
\* on the completed task of plan (u, 1), and both have returned 200
DoneAndUndone(u) ==
    /\ AllIdle
    /\ BagCardinality(log) = 2
    /\ \E c \in CallsOn(<<u, 1, 0>>) : c.op = "done" /\ c.status = 200
    /\ \E c \in CallsOn(<<u, 1, 1>>) : c.op = "undo" /\ c.status = 200

\* C36: when a CompleteTask on one task and an UndoTask on another task of
\* the same plan overlap, then after both have returned the plan is in the
\* user's active_plans if and only if Plan.completed_at is null.
C36_ActiveIffOpen ==
    \A u \in Users :
        DoneAndUndone(u) => ((1 \in users[u].active_plans) <=> (plans[u].completed_at = None))

\* ---------------------------------------------------------------- C37
\* C37: when overlapping CompleteTask/UndoTask calls of a user have all
\* returned and the user has one leaderboard entry, the entry carries the
\* user's User.score.
C37_BoardScoreIsCurrent ==
    AllIdle =>
        \A u \in Users :
            Cardinality(PlacesOf(leaderboard, u)) = 1 =>
                \A i \in PlacesOf(leaderboard, u) : leaderboard[i].score = users[u].score

\* ---------------------------------------------------------------- C38
\* C38: in every state, also between the steps of overlapping CompleteTask
\* and UndoTask calls, User.score >= 0 and User.n_tasks_done >= 0.
C38_CountersNonNegative ==
    \A u \in Users : users[u].score >= 0 /\ users[u].n_tasks_done >= 0

\* ---------------------------------------------------------------- C39
\* C39: after any sequence of CreatePlan, CompleteTask, UndoTask, Replan
\* and Retask calls, each run to completion, Plan.n_tasks_done of every
\* non-deleted plan is the number of the plan's completed, non-deleted
\* tasks, and so lies between 0 and n_tasks.
C39_DoneCountMatchesTasks ==
    \A i \in 1..Len(plans) :
        plans[i].deleted = FALSE =>
            /\ plans[i].n_tasks_done = CompletedCount(plans[i].user_id, plans[i].plan_id)
            /\ 0 <= plans[i].n_tasks_done
            /\ plans[i].n_tasks_done <= plans[i].n_tasks

\* ---------------------------------------------------------------- C40
\* ========== a user with two plans due on the same days (SpecTwin)
\* the store after user 1 has created two plans from ConcDrafts, one call
\* at a time: both plans number their tasks from 0 and the k-th task of
\* each is due on day k
TwinTasks ==
    [i \in 1..Len(ConcDrafts) |-> NewTask(1, 1, i - 1, ConcDrafts[i], i)]
    \o [i \in 1..Len(ConcDrafts) |-> NewTask(1, 2, i - 1, ConcDrafts[i], i)]

\* probe holds, for every medal entry, the plan of the call that pushed it
NoOwners == [u \in Users |-> [d \in Days |-> <<>>]]

InitTwin ==
    /\ users = [u \in Users |->
                  IF u = 1 THEN [NewUser EXCEPT !.n_plans = 2, !.active_plans = {1, 2}]
                  ELSE NewUser]
    /\ plans = <<NewPlan(1, 1, Len(ConcDrafts), 1, ConcDrafts),
                 NewPlan(1, 2, Len(ConcDrafts), 1, ConcDrafts)>>
    /\ tasks = TwinTasks
    /\ medals = NoMedals
    /\ leaderboard = <<>>
    /\ resp = NoResp
    /\ trip = NoTrip
    /\ procs = EmptyBag
    /\ log = EmptyBag
    /\ calls = 0
    /\ auth = TRUE
    /\ probe = NoOwners
    /\ snap = NoSnap

\* the owners of the entries of record r that a $pull of task_id t leaves
RECURSIVE KeepOwners(_, _, _)
KeepOwners(own, r, t) ==
    IF r = <<>> THEN <<>>
    ELSE (IF Head(r).task_id # t THEN <<Head(own)>> ELSE <<>>)
         \o KeepOwners(Tail(own), Tail(r), t)

\* the owners after the call answered in resp': on the day of its task the
\* pulled entries lose their owner and a pushed entry is owned by its plan
OwnersAfter ==
    IF resp'.status # 200 THEN probe
    ELSE LET u == resp'.u
             d == DayOf(tasks, u, resp'.p, resp'.t)
             kept == KeepOwners(probe[u][d], medals[u][d], resp'.t)
         IN  [probe EXCEPT ![u][d] = IF Len(medals'[u][d]) > Len(kept)
                                     THEN Append(kept, resp'.p) ELSE kept]

TwinCompleteTask ==
    /\ calls < MaxShortOps
    /\ calls' = calls + 1
    /\ \E token \in Tokens :
          LET s == verify_session(token)
          IN  /\ auth' = (token \in DOMAIN Sessions)
              /\ IF ~s.ok THEN Unauthorized("done")
                 ELSE \E p \in PlanIds, t \in TaskIds : CompleteTask(s.user_id, p, t)
    /\ probe' = OwnersAfter
    /\ UNCHANGED snap

TwinUndoTask ==
    /\ calls < MaxShortOps
    /\ calls' = calls + 1
    /\ \E token \in Tokens :
          LET s == verify_session(token)
          IN  /\ auth' = (token \in DOMAIN Sessions)
              /\ IF ~s.ok THEN Unauthorized("undo")
                 ELSE \E p \in PlanIds, t \in TaskIds : UndoTask(s.user_id, p, t)
    /\ probe' = OwnersAfter
    /\ UNCHANGED snap

NextTwin == TwinCompleteTask \/ TwinUndoTask

SpecTwin == InitTwin /\ [][NextTwin]_vars

\* the entries of record r that calls on plans other than p pushed
OthersEntries(r, own, p) ==
    LET keep == {i \in 1..Len(r) : own[i] # p}
        Pick[i \in 0..Len(r)] ==
            IF i = 0 THEN <<>>
            ELSE IF i \in keep THEN Append(Pick[i - 1], [entry |-> r[i], plan |-> own[i]])
            ELSE Pick[i - 1]
    IN  Pick[Len(r)]

OtherPlansEntriesKept ==
    (resp'.status = 200 /\ resp'.op \in {"done", "undo"}) =>
        \A d \in Days :
            OthersEntries(medals'[resp'.u][d], probe'[resp'.u][d], resp'.p)
               = OthersEntries(medals[resp'.u][d], probe[resp'.u][d], resp'.p)

\* C40: for a user with two plans whose tasks are due on the same days (the
\* task_ids of both plans start at 0), a CompleteTask or UndoTask on a task
\* of one plan removes or changes no medal entry recorded for a task of the
\* other plan.
C40_OtherPlansEntriesKept == [][OtherPlansEntriesKept]_vars

\* ------------------------------------------------------------------ C31
\* C31: no two plans of the same user ever have the same plan_id, also
\* when two CreatePlan calls of that user overlap.
C31_PlanIdsUnique ==
    \A i, j \in 1..Len(plans) :
        (i # j /\ plans[i].user_id = plans[j].user_id) => plans[i].plan_id # plans[j].plan_id

\* ------------------------------------------------------------------ C33
\* only Replan calls were made so far
OnlyReplans ==
    /\ \A q \in InFlight : q.op = "replan"
    /\ \A c \in BagToSet(log) : c.op = "replan"

TaskIdsDistinct ==
    \A i, j \in 1..Len(tasks) :
        (i # j /\ tasks[i].user_id = tasks[j].user_id /\ tasks[i].plan_id = tasks[j].plan_id)
            => tasks[i].task_id # tasks[j].task_id

NextIdAboveAll ==
    \A i \in 1..Len(plans), k \in 1..Len(tasks) :
        (tasks[k].user_id = plans[i].user_id /\ tasks[k].plan_id = plans[i].plan_id)
            => plans[i].next_task_id > tasks[k].task_id

NextIdNeverDecreases ==
    OnlyReplans' =>
        \A i \in 1..Len(plans) : plans'[i].next_task_id >= plans[i].next_task_id

ReplansKeepIdsDistinct ==
    OnlyReplans => (TaskIdsDistinct /\ (AllIdle => NextIdAboveAll))

\* C33: when Replan calls on the same plan overlap, no two task records
\* of the plan share a task_id, next_task_id never decreases in any step,
\* and once the calls have finished next_task_id is greater than every
\* task_id allocated in the plan.
C33_ReplansKeepIdsDistinct == []ReplansKeepIdsDistinct /\ [][NextIdNeverDecreases]_vars

\* ------------------------------------------------------------------ C34
\* one Retask and one Replan were made on plan (u, p), both returned 200,
\* and nothing else was called
RetaskAndReplan(u, p) ==
    /\ AllIdle
    /\ BagCardinality(log) = 2
    /\ \E c \in BagToSet(log) : c.op = "retask" /\ c.u = u /\ c.p = p /\ c.status = 200
    /\ \E c \in BagToSet(log) : c.op = "replan" /\ c.u = u /\ c.p = p /\ c.status = 200

\* C34: after a Retask and a Replan on the same plan have both finished,
\* overlapping or not, the prompt the Replan appended is still an element
\* of the plan's prompts array and prompts and responses have the same
\* length.
C34_ReplanPromptKept ==
    \A i \in 1..Len(plans) :
        RetaskAndReplan(plans[i].user_id, plans[i].plan_id) =>
            /\ \E k \in 1..Len(plans[i].prompts) : plans[i].prompts[k].goal \in ReplanGoals
            /\ Len(plans[i].prompts) = Len(plans[i].responses)

\* ------------------------------------------------------------------ C32
\* the weight the data model gives a difficulty, however the name is cased
ClaimWeight(name) ==
    CASE name = "easy" -> 1
      [] name \in {"medium", "Medium"} -> 3
      [] name = "hard" -> 5
      [] OTHER -> 0

CreatedPlan == plans'[Len(plans')]

PlanAsCreated(n) ==
    /\ Len(plans') = Len(plans) + 1
    /\ \A i \in 1..Len(plans) : plans'[i] = plans[i]
    /\ CreatedPlan.user_id = resp'.u
    /\ CreatedPlan.plan_id = resp'.p
    /\ CreatedPlan.n_tasks = n
    /\ CreatedPlan.n_tasks_done = 0
    /\ CreatedPlan.completed_at = None
    /\ CreatedPlan.deleted = FALSE
    /\ CreatedPlan.next_task_id = n

TasksAsCreated(n) ==
    /\ Len(tasks') = Len(tasks) + n
    /\ \A i \in 1..Len(tasks) : tasks'[i] = tasks[i]
    /\ \A i \in 1..n :
          LET t == tasks'[Len(tasks) + i]
          IN  /\ t.user_id = resp'.u
              /\ t.plan_id = resp'.p
              /\ t.task_id = i - 1
              /\ t.deleted = FALSE
              /\ t.completed_at = None
              /\ t.score = 10 * t.difficulty
              /\ ClaimWeight(probe'[i]) > 0 => t.score = 10 * ClaimWeight(probe'[i])

UserAsCreated ==
    /\ users'[resp'.u].active_plans = users[resp'.u].active_plans \cup {resp'.p}
    /\ users'[resp'.u].score = users[resp'.u].score

CreatePlanCreates ==
    (resp'.op = "create" /\ resp'.status = 200) =>
        /\ PlanAsCreated(Len(probe'))
        /\ TasksAsCreated(Len(probe'))
        /\ UserAsCreated

\* C32: a successful CreatePlan given n >= 1 valid drafts creates one plan
\* with n_tasks = n, n_tasks_done = 0, completed_at null, deleted false and
\* next_task_id = n, creates exactly n tasks with task_ids 0..n-1, all
\* non-deleted and incomplete with score = 10 * weight (weight 1, 3, 5 for
\* easy, medium, hard), adds plan_id to the user's active_plans and leaves
\* the user's score unchanged.
C32_CreatePlanCreates == [][CreatePlanCreates]_vars

\* a plan of a hard and a medium task was created for a user who had
\* already scored
C32_Witness ==
    /\ resp.op = "create"
    /\ resp.status = 200
    /\ Len(probe) = 2
    /\ \E i \in 1..2 : probe[i] = "hard"
    /\ \E i \in 1..2 : probe[i] = "Medium"
    /\ users[resp.u].score > 0

====
